---- MODULE Spec2Model ----
(***************************************************************************)
(* Verification model of grmcdorman/esp8266_device_framework:              *)
(*   - MqttPublisher: publish pass, connect / reconnect back-off, timers   *)
(*   - Accumulator<T, N>: rolling average                                  *)
(*   - VindriktningAirQuality: serial frame search and decode              *)
(*                                                                         *)
(* Time is counted in whole seconds.  Ticker callbacks registered with     *)
(* once_scheduled / attach_scheduled are not run by the timer itself: the  *)
(* timer queues them (schedule_function) and the main loop runs the queue  *)
(* in FIFO order.  Ticker::active() is true from the moment a one-shot     *)
(* timer is armed until it fires.                                          *)
(***************************************************************************)
EXTENDS Integers, Sequences, FiniteSets, TLC

(***************************************************************************)
(* Program constants                                                       *)
(***************************************************************************)
CONNECTION_TRIES == 5

CONNECTION_RETRY_INTERVAL == 5

MQTT_CONNECTION_LOST == -3

MQTT_CONNECT_FAILED == -2

MQTT_DISCONNECTED == -1

MQTT_CONNECTED == 0

(***************************************************************************)
(* Bounds and input sets                                                   *)
(***************************************************************************)
\* Ages (time since the last connection attempt / publish) saturate here;
\* at least the largest reconnect_interval of Configs.
MaxAge == 8

\* Interval settings the configuration file holds, as
\* <<update_interval, reconnect_interval>> in seconds.  (The constructor's
\* defaults, 30 and 60, are replaced when the configuration is loaded.)
Configs == {<<3, 8>>}

Min(a, b) == IF a < b THEN a ELSE b

Cap(x) == Min(x, MaxAge)

(***************************************************************************)
(* Devices attached to the publisher                                       *)
(***************************************************************************)
\* devices == nullptr
NullDevices == <<"nullptr">>

\* Device lists an application may hand to set_devices, in registry order.
Registry == <<"dht", "vindriktning", "basic_analog">>

SingleDevice == <<"dht">>

\* An application that attaches the signal-strength device, a DHT sensor and
\* an analog sensor of its own whose definition has no attributes template.
Application == <<"wifi_setup", "dht", "custom">>

\* A DHT sensor and an analog sensor.
Sensors == <<"dht", "basic_analog">>

Ids(list) == {list[i] : i \in 1..Len(list)}

\* The unique-id suffixes of the definitions each device registers.
Definitions(id) ==
    CASE id = "dht" -> <<"_dht_temperature", "_dht_humidity">>
      [] id = "vindriktning" -> <<"_pm25">>
      [] id = "basic_analog" -> <<"_basic_analog">>
      [] id = "wifi_setup" -> <<"_wifi">>
      [] id = "custom" -> <<"_custom">>

\* Definition::get_json_attributes_template of the definition with this
\* suffix: the definitions of the framework's devices return a template, a
\* definition without attributes returns nullptr.
get_json_attributes_template(suffix) ==
    IF suffix = "_custom" THEN "nullptr" ELSE "template"

\* The key a device adds to the state payload: its identifier, except for
\* WifiSetup, which adds "wifi".
json_key(id) == IF id = "wifi_setup" THEN "wifi" ELSE id

\* Ticker that is not armed.
Inactive == -1

VARIABLES
    pub,        \* the MqttPublisher object
    dev,        \* per device: enabled, is_published, has_accumulation
    scheduled,  \* functions queued with schedule_function, FIFO
    broker_up,  \* environment: whether a transport connect succeeds
    booted,     \* the framework has called setup()
    wire,       \* transport calls made by the handler that ran last
    hist,       \* bookkeeping about the last connection attempt
    registry,   \* the application's device list
    millis,     \* the 32-bit millisecond clock, millis()
    acc,        \* an Accumulator<uint32_t, 5>
    readings,   \* every value passed to new_reading of acc, oldest first
    vind,       \* the VindriktningAirQuality object (its pm25 accumulator is acc)
    serial,     \* bytes waiting in the SoftwareSerial receive buffer
    stream,     \* bytes the sensor has still to send
    decoded,    \* the 20-byte window the last loop() passed to parse(), or <<>>
    fm,         \* a call of find_message: its arguments and its result
    since,      \* readings recorded since the sensor was last rendered into a payload
    line,       \* a call of Device::dataline_to_index: its argument and its result
    pending,    \* the sensors that recorded a reading since they were last rendered
    dhtSensor,  \* a DhtSensor object, its driver and its scheduled functions
    shtSensor   \* a Sht31Sensor object and its scheduled functions

mqttVars == <<pub, dev, scheduled, broker_up, booted, wire, hist, registry>>

accVars == <<millis, acc, readings>>

vindVars == <<vind, serial, stream, decoded>>

driverVars == <<dhtSensor, shtSensor>>

auxVars == <<since, line, pending, driverVars>>

sensorVars == <<accVars, vindVars, fm, auxVars>>

vars == <<mqttVars, sensorVars>>

(***************************************************************************)
(* Accumulator<T, N> (Accumulator.h), instantiated as the code does:       *)
(* T = uint32_t, N = 5, unset = 0, zero = 0                                *)
(***************************************************************************)
\* Accumulator::average_points, the template argument N
average_points == 5

\* Accumulator::unset_value
unset_value == 0

\* Accumulator::zero_value
zero_value == 0

\* A slot of last_reading_set that was never written.
Uninitialized == "uninitialized"

\* The member initialisers of Accumulator.
InitAccumulator ==
    [last_reading |-> unset_value,
     last_reading_set |-> [i \in 0..(average_points - 1) |-> Uninitialized],
     current_index |-> 0,
     data_read_first |-> 0,
     last_sample_time |-> 0]

RECURSIVE accumulate(_, _, _, _)
\* std::accumulate(&set[first], &set[last], init).  The sum is formed in
\* T = uint32_t; the readings modelled here keep it far below 2^32.
accumulate(set, first, last, init) ==
    IF first >= last THEN init
    ELSE accumulate(set, first + 1, last, init + set[first])

\* Accumulator::get_last_reading
get_last_reading(a) == a.last_reading

\* get_current_average without the test for an empty accumulator.
get_current_average_unguarded(a) ==
    LET count == Min(a.data_read_first, average_points)
    IN  [num |-> accumulate(a.last_reading_set, 0, count, zero_value),
         den |-> count]

\* Accumulator::get_current_average.  The float quotient is kept exact, as
\* numerator and denominator.
get_current_average(a) ==
    LET count == Min(a.data_read_first, average_points)
    IN  IF count = 0
        THEN [num |-> unset_value, den |-> 1]
        ELSE [num |-> accumulate(a.last_reading_set, 0, count, zero_value),
              den |-> count]

\* new_reading whose index wraps to slot 1 instead of slot 0.
new_reading_wraps_late(a, new_value, now) ==
    [a EXCEPT !.last_reading = new_value,
              !.last_reading_set[a.current_index] = new_value,
              !.current_index = IF a.current_index + 1 >= average_points
                                THEN 1 ELSE a.current_index + 1,
              !.data_read_first = IF @ < average_points THEN @ + 1 ELSE @,
              !.last_sample_time = now]

\* new_reading whose sample count keeps counting past N.
new_reading_counts_on(a, new_value, now) ==
    [a EXCEPT !.last_reading = new_value,
              !.last_reading_set[a.current_index] = new_value,
              !.current_index = (a.current_index + 1) % average_points,
              !.data_read_first = @ + 1,
              !.last_sample_time = now]

\* Accumulator::new_reading
new_reading(a, new_value, now) ==
    [a EXCEPT !.last_reading = new_value,
              !.last_reading_set[a.current_index] = new_value,
              !.current_index = (a.current_index + 1) % average_points,
              !.data_read_first = IF @ < average_points THEN @ + 1 ELSE @,
              !.last_sample_time = now]

\* Accumulator::has_accumulation
has_accumulation(a) == a.data_read_first > 0

\* Accumulator::get_sample_count
get_sample_count(a) == a.data_read_first

(***************************************************************************)
(* VindriktningAirQuality (VindriktningAirQuality.h / .cpp)                *)
(***************************************************************************)
vindriktning_message_size == 20

\* VindriktningAirQuality::buffer_size = 2 * vindriktning_message_size
buffer_size == 40

\* 0x16
HEADER_BYTE_0 == 22

\* 0x11
HEADER_BYTE_1 == 17

\* 0x0B
HEADER_BYTE_2 == 11

\* nullptr
NullPtr == -1

\* memchr(&mem[from], c, n): the index of the first byte equal to c among
\* the n bytes from mem[from] on, or NullPtr.  mem is the whole receive
\* buffer; bytes past its end are not matched here: find_message returns
\* nullptr both for a match at or beyond byte_count and for no match.
memchr(mem, from, c, n) ==
    LET hits == {i \in from..(from + n - 1) : i \in DOMAIN mem /\ mem[i] = c}
    IN  IF hits = {} THEN NullPtr
        ELSE CHOOSE i \in hits : \A j \in hits : i <= j

RECURSIVE checksum(_, _, _)
\* The uint8_t sum formed by the loop of is_valid_checksum over data[i..19].
checksum(mem, data, i) ==
    IF i >= vindriktning_message_size THEN 0
    ELSE (mem[data + i] + checksum(mem, data, i + 1)) % 256

\* VindriktningAirQuality::is_valid_checksum
is_valid_checksum(mem, data) == checksum(mem, data, 0) = 0

\* The loop condition of find_message: the search goes on to the next
\* candidate while this holds.
header_mismatch(mem, candidate) ==
    /\ mem[candidate + 1] # HEADER_BYTE_1
    /\ mem[candidate + 2] # HEADER_BYTE_2
    /\ is_valid_checksum(mem, candidate)

RECURSIVE find_message_from(_, _, _)
\* One round of the do-while loop of find_message, entered with the
\* previous candidate.
find_message_from(mem, byte_count, previous) ==
    LET candidate == memchr(mem, previous + 1, HEADER_BYTE_0, byte_count)
    IN  IF candidate = NullPtr THEN NullPtr
        ELSE IF byte_count - candidate < vindriktning_message_size THEN NullPtr
        ELSE IF header_mismatch(mem, candidate)
             THEN find_message_from(mem, byte_count, candidate)
             ELSE candidate

\* VindriktningAirQuality::find_message(ptr, byte_count), ptr = &mem[0];
\* byte_count is a uint8_t.
find_message(mem, byte_count) == find_message_from(mem, byte_count % 256, -1)

\* The window of 20 bytes at mem[data].
Window(mem, data) == [i \in 1..vindriktning_message_size |-> mem[data + i - 1]]

\* parse that takes the reading from bytes 4 and 5.
parse_shifted(v, mem, data, now) ==
    LET new_pm25 == mem[data + 4] * 256 + mem[data + 5]
    IN  [v EXCEPT !.acc = new_reading(v.acc, new_pm25, now),
                  !.readings = Append(v.readings, new_pm25),
                  !.vind.last_read_millis = now,
                  !.vind.last_read_state = "READ",
                  !.vind.is_published = FALSE]

\* parse that takes byte 3 of the message as the top byte of a 32-bit reading.
parse_wide(v, mem, data, now) ==
    LET new_pm25 == mem[data + 3] * 16777216 + mem[data + 5] * 256 + mem[data + 6]
    IN  [v EXCEPT !.acc = new_reading(v.acc, new_pm25, now),
                  !.readings = Append(v.readings, new_pm25),
                  !.vind.last_read_millis = now,
                  !.vind.last_read_state = "READ",
                  !.vind.is_published = FALSE]

\* VindriktningAirQuality::parse on a context v = [vind, acc, readings]
parse(v, mem, data, now) ==
    LET new_pm25 == mem[data + 5] * 256 + mem[data + 6]
    IN  [v EXCEPT !.acc = new_reading(v.acc, new_pm25, now),
                  !.readings = Append(v.readings, new_pm25),
                  !.vind.last_read_millis = now,
                  !.vind.last_read_state = "READ",
                  !.vind.is_published = FALSE]

\* memmove that copies from the start of the frame instead of its end.
memmove_keeps_frame(mem, offset, n) ==
    [i \in DOMAIN mem |->
        IF i < n THEN mem[offset - vindriktning_message_size + i] ELSE mem[i]]

\* memmove(&buffer[0], &buffer[offset], n)
memmove(mem, offset, n) ==
    [i \in DOMAIN mem |-> IF i < n THEN mem[offset + i] ELSE mem[i]]

\* The search of loop() that empties the buffer when it finds no frame.
vind_process_discards(v, now) ==
    IF v.vind.rxBufIdx >= vindriktning_message_size
    THEN LET ptr == find_message(v.vind.buffer, v.vind.rxBufIdx)
         IN  IF ptr # NullPtr
             THEN LET v1 == parse(v, v.vind.buffer, ptr, now)
                      offset == ptr + vindriktning_message_size
                  IN  [v1 EXCEPT
                         !.decoded = Window(v.vind.buffer, ptr),
                         !.vind.buffer = memmove(v.vind.buffer, offset,
                                                 v.vind.rxBufIdx - offset),
                         !.vind.rxBufIdx = v.vind.rxBufIdx - offset]
             ELSE [v EXCEPT !.vind.last_read_state = "NO_HEADER_FOUND",
                            !.vind.rxBufIdx = 0]
    ELSE v

\* The part of loop() after the read: search, decode and compact.
vind_process(v, now) ==
    IF v.vind.rxBufIdx >= vindriktning_message_size
    THEN LET ptr == find_message(v.vind.buffer, v.vind.rxBufIdx)
         IN  IF ptr # NullPtr
             THEN LET v1 == parse(v, v.vind.buffer, ptr, now)
                      offset == ptr + vindriktning_message_size
                  IN  [v1 EXCEPT
                         !.decoded = Window(v.vind.buffer, ptr),
                         !.vind.buffer = memmove(v.vind.buffer, offset,
                                                 v.vind.rxBufIdx - offset),
                         !.vind.rxBufIdx = v.vind.rxBufIdx - offset]
             ELSE [v EXCEPT !.vind.last_read_state = "NO_HEADER_FOUND"]
    ELSE v

\* The read of loop() asking for buffer_size bytes wherever it stores them.
vind_read_unbounded(v) ==
    LET idx == IF v.vind.rxBufIdx >= buffer_size THEN 0 ELSE v.vind.rxBufIdx
        n == Min(Len(v.serial), buffer_size)
    IN  [v EXCEPT
           !.vind.buffer = [i \in DOMAIN @ |->
                 IF i >= idx /\ i < idx + n
                 THEN v.serial[i - idx + 1] ELSE @[i]],
           !.vind.rxBufIdx = idx + n,
           !.serial = SubSeq(v.serial, n + 1, Len(v.serial))]

\* The reset and the read of loop() (VindriktningAirQuality.cpp:111-115):
\* sensorSerial.read stores up to sizeof (buffer) - rxBufIdx bytes at
\* &buffer[rxBufIdx].
vind_read(v) ==
    LET idx == IF v.vind.rxBufIdx >= buffer_size THEN 0 ELSE v.vind.rxBufIdx
        n == Min(Len(v.serial), buffer_size - idx)
    IN  [v EXCEPT
           !.vind.buffer = [i \in DOMAIN @ |->
                 IF i >= idx /\ i < idx + n
                 THEN v.serial[i - idx + 1] ELSE @[i]],
           !.vind.rxBufIdx = idx + n,
           !.serial = SubSeq(v.serial, n + 1, Len(v.serial))]

\* VindriktningAirQuality::loop on a context
\* v = [vind, acc, readings, serial, decoded]
vind_loop(v, now) ==
    IF ~v.vind.enabled THEN v
    ELSE IF v.serial = <<>> THEN v
    ELSE vind_process(vind_read(v), now)

\* The members of VindriktningAirQuality after construction and enabling;
\* the receive buffer has no initialiser, fill is what it happens to hold.
InitVind(fill) ==
    [enabled |-> TRUE,
     buffer |-> [i \in 0..(buffer_size - 1) |-> fill],
     rxBufIdx |-> 0,
     last_read_millis |-> 0,
     last_read_state |-> "NEVER_READ",
     is_published |-> FALSE]

(***************************************************************************)
(* Handler context.  The handlers below are functions from a context       *)
(* c = [p, d, q, w, h] to a context: p the publisher, d the devices, q the *)
(* queue of scheduled functions, w the transport calls made so far by the  *)
(* running handler, h bookkeeping about the last connection attempt.       *)
(***************************************************************************)
Emit(c, call) == [c EXCEPT !.w = Append(@, call)]

\* Device::is_enabled
is_enabled(c, id) == c.d[id].enabled

\* Device::get_is_published of a device that does not override it.
get_is_published_stored(c, id) == c.d[id].is_published

\* Device::get_is_published; WifiSetup overrides it to return false.
get_is_published(c, id) ==
    IF id = "wifi_setup" THEN FALSE ELSE c.d[id].is_published

\* set_is_published that marks every attached device.
set_is_published_all(c, id) ==
    [c EXCEPT !.d = [x \in DOMAIN c.d |-> [c.d[x] EXCEPT !.is_published = TRUE]]]

\* Device::set_is_published
set_is_published(c, id) == [c EXCEPT !.d[id].is_published = TRUE]

\* clear_is_published that leaves the flag as it is.
clear_is_published_keeps(d, id) == d

\* Device::clear_is_published
clear_is_published(d, id) == [d EXCEPT ![id].is_published = FALSE]

\* Device::publish(json) of the concrete device: TRUE when it adds its key.
\* dht: AbstractTemperaturePressureSensor::publish; basic_analog and custom:
\* AbstractAnalog::publish; vindriktning: VindriktningAirQuality::publish;
\* wifi_setup: WifiSetup::publish.
device_publish(c, id) ==
    CASE id = "vindriktning" -> is_enabled(c, id)
      [] id = "wifi_setup" -> c.d[id].publish_rssi
      [] OTHER -> c.d[id].has_accumulation /\ is_enabled(c, id)

\* Ticker::active
active(ticker) == ticker # Inactive

\* PubSubClient::connected
connected(c) == c.p.mqttClient /\ c.p.connected

\* PubSubClient::connect: succeeds at once when already connected,
\* otherwise when the broker accepts the connection.
connect(c, up) == IF connected(c) THEN TRUE ELSE up

\* Ticker::once_scheduled on connect_ticker
once_scheduled(c, seconds) == [c EXCEPT !.p.connect_ticker = seconds]

\* MqttPublisher::set_timer
set_timer(c) ==
    [c EXCEPT !.p.current_publish_seconds = c.p.update_interval,
              !.p.publish_ticker = c.p.update_interval]

\* The topic publish_auto_config builds for one definition, as its pieces.
config_topic(c, suffix) ==
    <<"homeassistant/sensor/", c.p.prefix, "/", c.p.identifier, suffix, "/config">>

RECURSIVE auto_config_definitions(_, _, _, _)
\* Inner loop of publish_auto_config: one retained message per definition;
\* attributes tells whether the payload carries json_attributes_template.
auto_config_definitions(c, id, defs, k) ==
    IF k > Len(defs) THEN c
    ELSE auto_config_definitions(
            Emit(c, [op |-> "publish", topic |-> "config", device |-> id,
                     suffix |-> defs[k], retained |-> TRUE,
                     path |-> config_topic(c, defs[k]),
                     attributes |-> get_json_attributes_template(defs[k]) # "nullptr"]),
            id, defs, k + 1)

RECURSIVE auto_config_devices_all(_, _)
\* The outer loop of publish_auto_config without the test of is_enabled.
auto_config_devices_all(c, i) ==
    IF i > Len(c.p.devices) THEN c
    ELSE LET id == c.p.devices[i]
         IN  auto_config_devices_all(
                auto_config_definitions(c, id, Definitions(id), 1), i + 1)

RECURSIVE auto_config_devices(_, _)
\* Outer loop of publish_auto_config over the device list.
auto_config_devices(c, i) ==
    IF i > Len(c.p.devices) THEN c
    ELSE LET id == c.p.devices[i]
         IN  auto_config_devices(
                IF is_enabled(c, id)
                THEN auto_config_definitions(c, id, Definitions(id), 1)
                ELSE c,
                i + 1)

\* MqttPublisher::publish_auto_config
publish_auto_config(c) ==
    IF c.p.devices = NullDevices THEN c ELSE auto_config_devices(c, 1)

\* The failure branch of reconnect() with the cooldown one attempt later.
reconnect_failed_resets_late(c) ==
    LET rc == (c.p.retry_count + 1) % 65536
        cooldown == rc > CONNECTION_TRIES + 1
        next_interval == IF cooldown THEN c.p.reconnect_interval
                         ELSE CONNECTION_RETRY_INTERVAL
    IN  once_scheduled([c EXCEPT !.p.retry_count = IF cooldown THEN 0 ELSE rc],
                       next_interval)

\* The branch of reconnect() taken when connect() fails.
reconnect_failed(c) ==
    LET rc == (c.p.retry_count + 1) % 65536
        cooldown == rc > CONNECTION_TRIES
        next_interval == IF cooldown THEN c.p.reconnect_interval
                         ELSE CONNECTION_RETRY_INTERVAL
    IN  once_scheduled([c EXCEPT !.p.retry_count = IF cooldown THEN 0 ELSE rc],
                       next_interval)

\* reconnect() without its first test.
reconnect_unguarded(c, up) ==
    LET ok == connect(c, up)
        n == IF c.p.retry_count = 0 THEN 1 ELSE c.h.n + 1
        c1 == [c EXCEPT !.p.connection_attempt_age = 0,
                        !.p.connected = ok,
                        !.p.mqtt_state = IF ok THEN MQTT_CONNECTED
                                         ELSE MQTT_CONNECT_FAILED]
        c2 == IF ok
              THEN publish_auto_config(
                      Emit(c1, [op |-> "publish", topic |-> "status",
                                payload |-> "online", retained |-> TRUE]))
              ELSE reconnect_failed(c1)
        call == [op |-> "connect", ok |-> ok, was |-> connected(c),
                 n |-> IF ok THEN 0 ELSE n,
                 age |-> c.p.connection_attempt_age,
                 delay |-> c.h.delay,
                 next |-> IF ok THEN 0 ELSE c2.p.connect_ticker,
                 rc |-> c2.p.retry_count]
    IN  [c2 EXCEPT !.w = Append(c.w, call) \o SubSeq(c2.w, Len(c.w) + 1, Len(c2.w)),
                   !.h = [n |-> IF ok THEN 0 ELSE n,
                          delay |-> IF ok THEN 0 ELSE c2.p.connect_ticker]]

\* MqttPublisher::reconnect.  The "connect" call records, besides its
\* outcome: was (connected before the call), n (number of this attempt in
\* its burst when it fails), age (seconds since the previous attempt),
\* delay (the retry delay armed by the previous failed attempt, 0 if none),
\* next (the retry delay armed by this attempt, 0 if it succeeds) and
\* rc (retry_count on return).
reconnect(c, up) ==
    IF ~c.p.enabled \/ ~c.p.server_set \/ ~c.p.mqttClient THEN c
    ELSE
    LET ok == connect(c, up)
        n == IF c.p.retry_count = 0 THEN 1 ELSE c.h.n + 1
        c1 == [c EXCEPT !.p.connection_attempt_age = 0,
                        !.p.connected = ok,
                        !.p.mqtt_state = IF ok THEN MQTT_CONNECTED
                                         ELSE MQTT_CONNECT_FAILED]
        c2 == IF ok
              THEN publish_auto_config(
                      Emit(c1, [op |-> "publish", topic |-> "status",
                                payload |-> "online", retained |-> TRUE]))
              ELSE reconnect_failed(c1)
        call == [op |-> "connect", ok |-> ok, was |-> connected(c),
                 n |-> IF ok THEN 0 ELSE n,
                 age |-> c.p.connection_attempt_age,
                 delay |-> c.h.delay,
                 next |-> IF ok THEN 0 ELSE c2.p.connect_ticker,
                 rc |-> c2.p.retry_count]
    IN  [c2 EXCEPT !.w = Append(c.w, call) \o SubSeq(c2.w, Len(c.w) + 1, Len(c2.w)),
                   !.h = [n |-> IF ok THEN 0 ELSE n,
                          delay |-> IF ok THEN 0 ELSE c2.p.connect_ticker]]

RECURSIVE publish_devices_ungated(_, _, _)
\* publish_devices without the test of get_is_published.
publish_devices_ungated(c, i, keys) ==
    IF i > Len(c.p.devices) THEN [c |-> c, keys |-> keys]
    ELSE LET id == c.p.devices[i]
         IN  IF is_enabled(c, id)
             THEN publish_devices_ungated(set_is_published(c, id), i + 1,
                        IF device_publish(c, id) THEN Append(keys, json_key(id)) ELSE keys)
             ELSE publish_devices_ungated(c, i + 1, keys)

RECURSIVE publish_devices(_, _, _)
\* The device loop of publish(): returns the context and the keys added
\* to state_json, in registry order.
publish_devices(c, i, keys) ==
    IF i > Len(c.p.devices) THEN [c |-> c, keys |-> keys]
    ELSE LET id == c.p.devices[i]
         IN  IF is_enabled(c, id) /\ ~get_is_published(c, id)
             THEN publish_devices(set_is_published(c, id), i + 1,
                        IF device_publish(c, id) THEN Append(keys, json_key(id)) ELSE keys)
             ELSE publish_devices(c, i + 1, keys)

\* publish_pass that sends nothing when no device contributed.
publish_pass_skips_empty(c, tx_ok) ==
    LET c1 == [c EXCEPT !.p.tried_publish = TRUE, !.p.publish_age = 0]
        r == publish_devices(c1, 1, <<>>)
    IN  IF r.keys = <<>> THEN r.c
        ELSE [Emit(r.c, [op |-> "publish", topic |-> "state", keys |-> r.keys,
                         retained |-> TRUE, ok |-> tx_ok])
                 EXCEPT !.p.last_publish_failed = ~tx_ok]

\* publish_pass that marks the devices only when the transmit succeeded.
publish_pass_marks_on_success(c, tx_ok) ==
    LET c1 == [c EXCEPT !.p.tried_publish = TRUE, !.p.publish_age = 0]
        r == publish_devices(c1, 1, <<>>)
        c2 == IF tx_ok THEN r.c ELSE c1
    IN  [Emit(c2, [op |-> "publish", topic |-> "state", keys |-> r.keys,
                   retained |-> TRUE, ok |-> tx_ok])
            EXCEPT !.p.last_publish_failed = ~tx_ok]

\* The part of publish() that runs once the client is connected.
publish_pass(c, tx_ok) ==
    LET c1 == [c EXCEPT !.p.tried_publish = TRUE, !.p.publish_age = 0]
        r == publish_devices(c1, 1, <<>>)
    IN  [Emit(r.c, [op |-> "publish", topic |-> "state", keys |-> r.keys,
                    retained |-> TRUE, ok |-> tx_ok])
            EXCEPT !.p.last_publish_failed = ~tx_ok]

\* The connection step of publish(): start a new burst unless a retry is armed.
publish_connect(c, up) ==
    IF ~connected(c) /\ ~active(c.p.connect_ticker)
    THEN reconnect([c EXCEPT !.p.retry_count = 0], up)
    ELSE c

\* publish() that runs the publish pass whatever the connection step gave.
publish_unconditional(c, up, tx_ok) ==
    IF ~c.p.enabled \/ ~c.p.mqttClient \/ ~c.p.server_set \/ c.p.devices = NullDevices
    THEN c
    ELSE publish_pass(publish_connect(c, up), tx_ok)

\* MqttPublisher::publish
publish(c, up, tx_ok) ==
    IF ~c.p.enabled \/ ~c.p.mqttClient \/ ~c.p.server_set \/ c.p.devices = NullDevices
    THEN c
    ELSE LET c1 == publish_connect(c, up)
         IN  IF ~connected(c1) THEN c1 ELSE publish_pass(c1, tx_ok)

\* MqttPublisher::setup
setup(c) ==
    LET c1 == [c EXCEPT !.p.publish_age = Cap(c.p.update_interval),
                        !.p.connection_attempt_age = Cap(c.p.reconnect_interval)]
    IN  IF c1.p.enabled /\ c1.p.server_set
        THEN LET c2 == set_timer([c1 EXCEPT !.p.mqttClient = TRUE,
                                            !.p.connected = FALSE,
                                            !.p.mqtt_state = MQTT_DISCONNECTED])
             IN  [c2 EXCEPT !.q = Append(@, "publish")]
        ELSE c1

\* loop() that leaves the armed publish timer alone.
loop_keeps_timer(c) ==
    LET c1 == IF c.p.enabled /\ c.p.server_set /\ ~c.p.mqttClient THEN setup(c) ELSE c
        c2 == IF c1.p.current_publish_seconds # c1.p.update_interval
              THEN [c1 EXCEPT !.p.current_publish_seconds = c1.p.update_interval]
              ELSE c1
    IN  IF c2.p.mqttClient THEN [c2 EXCEPT !.p.last_state = c2.p.mqtt_state] ELSE c2

\* MqttPublisher::loop
loop(c) ==
    LET c1 == IF c.p.enabled /\ c.p.server_set /\ ~c.p.mqttClient THEN setup(c) ELSE c
        c2 == IF c1.p.current_publish_seconds # c1.p.update_interval
              THEN set_timer(c1) ELSE c1
    IN  IF c2.p.mqttClient THEN [c2 EXCEPT !.p.last_state = c2.p.mqtt_state] ELSE c2

(***************************************************************************)
(* State after construction                                                *)
(***************************************************************************)
\* MqttPublisher::MqttPublisher and the member initialisers of the class,
\* followed by loading the interval settings cfg.
InitPub(cfg) ==
    [enabled |-> FALSE, server_set |-> FALSE, devices |-> NullDevices,
     mqttClient |-> FALSE, connected |-> FALSE, mqtt_state |-> MQTT_DISCONNECTED,
     retry_count |-> 0, connect_ticker |-> Inactive, publish_ticker |-> Inactive,
     current_publish_seconds |-> 0, update_interval |-> cfg[1],
     reconnect_interval |-> cfg[2], tried_publish |-> FALSE,
     last_publish_failed |-> FALSE, connection_attempt_age |-> 0,
     publish_age |-> 0, last_state |-> -1,
     prefix |-> "firmware_name", identifier |-> "system_identifier"]

\* Device::Device enables a device; VindriktningAirQuality's constructor
\* disables it again.  Nothing is published or accumulated yet.
InitDev(list) ==
    [id \in Ids(list) |->
        IF id = "wifi_setup"
        THEN [enabled |-> TRUE, is_published |-> FALSE, publish_rssi |-> TRUE]
        ELSE [enabled |-> id # "vindriktning", is_published |-> FALSE,
              has_accumulation |-> FALSE]]

\* Clock and accumulator at rest, for the specifications that do not use them.
IdleVind ==
    /\ vind = InitVind(0)
    /\ serial = <<>>
    /\ stream = <<>>
    /\ decoded = <<>>

IdleFind == fm = [mem |-> <<>>, byte_count |-> 0, called |-> FALSE, result |-> NullPtr]

\* No DhtSensor and no Sht31Sensor object in use.
IdleDrivers ==
    /\ dhtSensor = [started |-> FALSE]
    /\ shtSensor = [started |-> FALSE]

\* No sensor rendered, no data line converted.
IdleAux ==
    /\ since = <<>>
    /\ line = [dataLine |-> 0, called |-> FALSE, result |-> 0]
    /\ pending = {}
    /\ IdleDrivers

IdleSensors ==
    /\ IdleAux
    /\ millis = 0
    /\ acc = InitAccumulator
    /\ readings = <<>>
    /\ IdleVind
    /\ IdleFind

InitMqtt ==
    /\ IdleSensors
    /\ registry = SingleDevice
    /\ \E cfg \in Configs : pub = InitPub(cfg)
    /\ dev = InitDev(registry)
    /\ scheduled = <<>>
    /\ broker_up \in BOOLEAN
    /\ booted = FALSE
    /\ wire = <<>>
    /\ hist = [n |-> 0, delay |-> 0]

Ctx == [p |-> pub, d |-> dev, q |-> scheduled, w |-> <<>>, h |-> hist]

Commit(c) ==
    /\ pub' = c.p
    /\ dev' = c.d
    /\ scheduled' = c.q
    /\ wire' = c.w
    /\ hist' = c.h

(***************************************************************************)
(* Settings and wiring done by the application, the configuration file and *)
(* the web interface                                                       *)
(***************************************************************************)
\* Device::set_enabled on the publisher
SetEnabled ==
    /\ pub' = [pub EXCEPT !.enabled = ~pub.enabled]
    /\ wire' = <<>>
    /\ UNCHANGED <<dev, scheduled, broker_up, booted, hist, registry, sensorVars>>

\* server_address.set: the address becomes blank or non-blank
SetServerAddress ==
    /\ pub' = [pub EXCEPT !.server_set = ~pub.server_set]
    /\ wire' = <<>>
    /\ UNCHANGED <<dev, scheduled, broker_up, booted, hist, registry, sensorVars>>

\* MqttPublisher::set_devices, called by the application before setup()
SetDevices ==
    /\ ~booted
    /\ pub.devices = NullDevices
    /\ pub' = [pub EXCEPT !.devices = registry]
    /\ wire' = <<>>
    /\ UNCHANGED <<dev, scheduled, broker_up, booted, hist, registry, sensorVars>>

\* Device::set_enabled on an attached device
SetDeviceEnabled ==
    /\ \E id \in Ids(registry) : dev' = [dev EXCEPT ![id].enabled = ~dev[id].enabled]
    /\ wire' = <<>>
    /\ UNCHANGED <<pub, scheduled, broker_up, booted, hist, registry, sensorVars>>

\* A sensor records a reading: new_reading followed by clear_is_published
\* (DhtSensor.cpp:160-163, AbstractAnalog.cpp:95-106, VindriktningAirQuality::parse).
NewReading ==
    /\ \E id \in Ids(registry) :
          /\ dev[id].enabled
          /\ dev' = clear_is_published([dev EXCEPT ![id].has_accumulation = TRUE], id)
    /\ wire' = <<>>
    /\ UNCHANGED <<pub, scheduled, broker_up, booted, hist, registry, sensorVars>>

(***************************************************************************)
(* Environment: broker and link                                            *)
(***************************************************************************)
BrokerChange ==
    /\ broker_up' = ~broker_up
    /\ wire' = <<>>
    /\ UNCHANGED <<pub, dev, scheduled, booted, hist, registry, sensorVars>>

\* The transport reports the link lost: PubSubClient::connected() turns false.
LinkLost ==
    /\ pub.mqttClient /\ pub.connected
    /\ pub' = [pub EXCEPT !.connected = FALSE, !.mqtt_state = MQTT_CONNECTION_LOST]
    /\ wire' = <<>>
    /\ UNCHANGED <<dev, scheduled, broker_up, booted, hist, registry, sensorVars>>

(***************************************************************************)
(* Handlers                                                                *)
(***************************************************************************)
\* The framework calls setup() once at boot.
Boot ==
    /\ ~booted
    /\ booted' = TRUE
    /\ Commit(setup(Ctx))
    /\ UNCHANGED <<broker_up, registry, sensorVars>>

\* The main loop calls MqttPublisher::loop.
Loop ==
    /\ booted
    /\ Commit(loop(Ctx))
    /\ UNCHANGED <<broker_up, booted, registry, sensorVars>>

\* publish_ticker fires (attach_scheduled): publish() is queued, the timer repeats.
PublishTickerFires ==
    /\ pub.publish_ticker = 0
    /\ pub' = [pub EXCEPT !.publish_ticker = pub.current_publish_seconds]
    /\ scheduled' = Append(scheduled, "publish")
    /\ wire' = <<>>
    /\ UNCHANGED <<dev, broker_up, booted, hist, registry, sensorVars>>

\* connect_ticker fires (once_scheduled): reconnect() is queued, the timer is spent.
ConnectTickerFires ==
    /\ pub.connect_ticker = 0
    /\ pub' = [pub EXCEPT !.connect_ticker = Inactive]
    /\ scheduled' = Append(scheduled, "reconnect")
    /\ wire' = <<>>
    /\ UNCHANGED <<dev, broker_up, booted, hist, registry, sensorVars>>

\* The main loop runs the oldest scheduled function: publish().
RunPublish ==
    /\ scheduled # <<>> /\ Head(scheduled) = "publish"
    /\ \E tx_ok \in BOOLEAN :
          Commit(publish([Ctx EXCEPT !.q = Tail(scheduled)], broker_up, tx_ok))
    /\ UNCHANGED <<broker_up, booted, registry, sensorVars>>

\* The main loop runs the oldest scheduled function: reconnect().
RunReconnect ==
    /\ scheduled # <<>> /\ Head(scheduled) = "reconnect"
    /\ Commit(reconnect([Ctx EXCEPT !.q = Tail(scheduled)], broker_up))
    /\ UNCHANGED <<broker_up, booted, registry, sensorVars>>

\* Seconds until the next armed timer fires.
Remaining ==
    {t \in {pub.connect_ticker, pub.publish_ticker} : t # Inactive}

\* Time passes until the next timer is due; the queue of scheduled
\* functions is run within the loop pass that queued them.
Tick ==
    /\ scheduled = <<>>
    /\ Remaining # {}
    /\ \A t \in Remaining : t > 0
    /\ LET d == CHOOSE t \in Remaining : \A u \in Remaining : t <= u
       IN  pub' = [pub EXCEPT
                !.connect_ticker = IF @ = Inactive THEN @ ELSE @ - d,
                !.publish_ticker = IF @ = Inactive THEN @ ELSE @ - d,
                !.connection_attempt_age = Cap(@ + d),
                !.publish_age = Cap(@ + d)]
    /\ wire' = <<>>
    /\ UNCHANGED <<dev, scheduled, broker_up, booted, hist, registry, sensorVars>>

Next ==
    \/ SetEnabled
    \/ SetServerAddress
    \/ SetDevices
    \/ BrokerChange
    \/ LinkLost
    \/ Boot
    \/ Loop
    \/ PublishTickerFires
    \/ ConnectTickerFires
    \/ RunPublish
    \/ RunReconnect
    \/ Tick

Init == InitMqtt

\* The connection machine: one attached device, settings changed at run time,
\* broker and link coming and going.
Spec == Init /\ [][Next]_vars

\* The timers fire when due and the main loop keeps running: it calls
\* setup() and loop() and runs the scheduled functions.
Fairness ==
    /\ WF_vars(Boot)
    /\ WF_vars(Loop)
    /\ WF_vars(Tick)
    /\ WF_vars(PublishTickerFires)
    /\ WF_vars(ConnectTickerFires)
    /\ WF_vars(RunPublish)
    /\ WF_vars(RunReconnect)

\* An application that has enabled and configured the publisher and attached
\* its device list before the first loop, and changes no setting afterwards.
InitLive ==
    /\ IdleSensors
    /\ registry = SingleDevice
    /\ \E cfg \in Configs :
          pub = [InitPub(cfg) EXCEPT !.enabled = TRUE, !.server_set = TRUE,
                                     !.devices = registry]
    /\ dev = InitDev(registry)
    /\ scheduled = <<>>
    /\ broker_up \in BOOLEAN
    /\ booted = FALSE
    /\ wire = <<>>
    /\ hist = [n |-> 0, delay |-> 0]

NextLive ==
    \/ BrokerChange
    \/ LinkLost
    \/ Boot
    \/ Loop
    \/ PublishTickerFires
    \/ ConnectTickerFires
    \/ RunPublish
    \/ RunReconnect
    \/ Tick

SpecLive == InitLive /\ [][NextLive]_vars /\ Fairness

(***************************************************************************)
(* The publish pass over three devices: the publisher is enabled and       *)
(* configured, the broker is reachable, devices are enabled, disabled and  *)
(* take readings.                                                          *)
(***************************************************************************)
InitGate ==
    /\ IdleSensors
    /\ registry = Registry
    /\ \E cfg \in Configs :
          pub = [InitPub(cfg) EXCEPT !.enabled = TRUE, !.server_set = TRUE]
    /\ dev = InitDev(registry)
    /\ scheduled = <<>>
    /\ broker_up = TRUE
    /\ booted = FALSE
    /\ wire = <<>>
    /\ hist = [n |-> 0, delay |-> 0]

NextGate ==
    \/ SetDevices
    \/ SetDeviceEnabled
    \/ NewReading
    \/ Boot
    \/ Loop
    \/ PublishTickerFires
    \/ RunPublish
    \/ Tick

SpecGate == InitGate /\ [][NextGate]_vars

(***************************************************************************)
(* The accumulator on its own: readings drawn from Values are recorded.    *)
(***************************************************************************)
\* Values a reading may take.
Values == 1..6

\* Number of readings recorded.
MaxReadings == 6

\* The publisher at rest, for the specifications that do not use it.
IdleMqtt ==
    /\ registry = <<>>
    /\ pub = InitPub(CHOOSE cfg \in Configs : TRUE)
    /\ dev = InitDev(registry)
    /\ scheduled = <<>>
    /\ broker_up = FALSE
    /\ booted = FALSE
    /\ wire = <<>>
    /\ hist = [n |-> 0, delay |-> 0]

InitAcc ==
    /\ IdleMqtt
    /\ IdleAux
    /\ IdleVind
    /\ IdleFind
    /\ millis = 0
    /\ acc = InitAccumulator
    /\ readings = <<>>

\* A sensor calls acc.new_reading(v).
RecordReading ==
    /\ Len(readings) < MaxReadings
    /\ \E v \in Values :
          /\ acc' = new_reading(acc, v, millis)
          /\ readings' = Append(readings, v)
    /\ UNCHANGED <<mqttVars, auxVars, millis, vindVars, fm>>

NextAcc == RecordReading

SpecAcc == InitAcc /\ [][NextAcc]_vars

(***************************************************************************)
(* Sensor messages used as inputs                                          *)
(***************************************************************************)
RECURSIVE SumBytes(_)
SumBytes(q) == IF q = <<>> THEN 0 ELSE Head(q) + SumBytes(Tail(q))

\* A message as the sensor sends it: the header, the reading pm in bytes 5
\* and 6 (big-endian), and a last byte that makes the 20 bytes sum to 0
\* modulo 256.
Message(pm) ==
    LET body == <<HEADER_BYTE_0, HEADER_BYTE_1, HEADER_BYTE_2, 0, 0,
                  pm \div 256, pm % 256, 0, 0, 0, 0, 0, 0, 0, 0, 0, 0, 0, 0>>
    IN  Append(body, (256 - (SumBytes(body) % 256)) % 256)

RECURSIVE Pow2(_)
Pow2(k) == IF k = 0 THEN 1 ELSE 2 * Pow2(k - 1)

\* q with bit b flipped (bit b % 8 of byte b \div 8).
FlipBit(q, b) ==
    LET k == (b \div 8) + 1
        w == Pow2(b % 8)
    IN  [q EXCEPT ![k] = IF (@ \div w) % 2 = 1 THEN @ - w ELSE @ + w]

\* The set of flipped bits of a message that arrives intact.
NoFlip == {}

\* q with the bits of the set flips flipped.
RECURSIVE Corrupt(_, _)
Corrupt(q, flips) ==
    IF flips = {} THEN q
    ELSE LET b == CHOOSE x \in flips : TRUE
         IN  Corrupt(FlipBit(q, b), flips \ {b})

\* A 20-byte window with the header 0x16 0x11 0x0B whose bytes sum to 0 mod 256.
IsValidMessage(q) ==
    /\ Len(q) = vindriktning_message_size
    /\ q[1] = HEADER_BYTE_0 /\ q[2] = HEADER_BYTE_1 /\ q[3] = HEADER_BYTE_2
    /\ SumBytes(q) % 256 = 0

\* Readings the sensor reports; 22 puts the byte 0x16 inside a message.
PmValues == {22, 304}

\* What the receive buffer happens to hold where nothing was stored yet.
Fills == {0, HEADER_BYTE_0}

\* The receive buffer holding the bytes q from index 0 on.
Memory(q, fill) ==
    [i \in 0..(buffer_size - 1) |-> IF i < Len(q) THEN q[i + 1] ELSE fill]

(***************************************************************************)
(* find_message on its own: called on a buffer that holds some bytes       *)
(* followed by a message, intact or with one bit flipped.                  *)
(***************************************************************************)
\* Bytes ahead of the message.
Prefixes == {<<>>, <<0>>, <<HEADER_BYTE_0>>, <<0, HEADER_BYTE_0>>}

InitFind ==
    /\ IdleMqtt
    /\ IdleAux
    /\ millis = 0 /\ acc = InitAccumulator /\ readings = <<>>
    /\ IdleVind
    /\ \E prefix \in Prefixes, pm \in PmValues, fill \in Fills,
          flip \in {NoFlip} \cup {{b} : b \in 0..(8 * vindriktning_message_size - 1)} :
          fm = [mem |-> Memory(prefix \o Corrupt(Message(pm), flip), fill),
                byte_count |-> Len(prefix) + vindriktning_message_size,
                prefix |-> prefix, flip |-> flip,
                called |-> FALSE, result |-> NullPtr]

\* The call find_message(buffer, byte_count).
CallFindMessage ==
    /\ ~fm.called
    /\ fm' = [fm EXCEPT !.called = TRUE,
                        !.result = find_message(fm.mem, fm.byte_count)]
    /\ UNCHANGED <<mqttVars, auxVars, accVars, vindVars>>

NextFind == CallFindMessage

SpecFind == InitFind /\ [][NextFind]_vars

(***************************************************************************)
(* The sensor's byte stream read by loop()                                 *)
(***************************************************************************)
\* Pieces a stream is made of: stray bytes, messages, a damaged message.
\* A buffer's length of line noise without a header byte.
Noise == [i \in 1..buffer_size |-> 0]

Chunks ==
    {<<HEADER_BYTE_0>>, <<0>>, Message(304), FlipBit(Message(304), 44), Noise}

\* Number of pieces in a stream.
MaxChunks == 2

RECURSIVE StreamsOf(_)
StreamsOf(n) ==
    IF n = 0 THEN {<<>>}
    ELSE LET shorter == StreamsOf(n - 1)
         IN  shorter \cup {q \o c : q \in shorter, c \in Chunks}

\* Numbers of bytes that arrive between two calls of loop().
Bursts == {3, 20}

InitStream ==
    /\ IdleMqtt
    /\ IdleAux
    /\ IdleFind
    /\ millis = 0 /\ acc = InitAccumulator /\ readings = <<>>
    /\ \E fill \in Fills : vind = InitVind(fill)
    /\ serial = <<>>
    /\ stream \in StreamsOf(MaxChunks) \ {<<>>}
    /\ decoded = <<>>

\* SoftwareSerial receives the next bytes of the stream; its buffer holds
\* buffer_size bytes, what does not fit is lost.
Arrive ==
    /\ stream # <<>>
    /\ \E k \in Bursts :
          LET n == Min(k, Len(stream))
              room == buffer_size - Len(serial)
          IN  /\ serial' = serial \o SubSeq(stream, 1, Min(n, room))
              /\ stream' = SubSeq(stream, n + 1, Len(stream))
    /\ decoded' = <<>>
    /\ UNCHANGED <<mqttVars, auxVars, accVars, vind, fm>>

\* The main loop calls VindriktningAirQuality::loop.
VindLoop ==
    /\ LET v == vind_loop([vind |-> vind, acc |-> acc, readings |-> readings,
                           serial |-> serial, decoded |-> <<>>], millis)
       IN  /\ vind' = v.vind
           /\ acc' = v.acc
           /\ readings' = v.readings
           /\ serial' = v.serial
           /\ decoded' = v.decoded
    /\ UNCHANGED <<mqttVars, auxVars, millis, stream, fm>>

NextStream == Arrive \/ VindLoop

SpecStream == InitStream /\ [][NextStream]_vars

(***************************************************************************)
(* Properties                                                              *)
(***************************************************************************)
\* The connect calls made by the handler that ran last.
ConnectCalls == {i \in 1..Len(wire) : wire[i].op = "connect"}

\* The retained "online" availability messages sent by the handler that ran last.
OnlineCalls ==
    {i \in 1..Len(wire) : wire[i].op = "publish" /\ wire[i].topic = "status"}

\* The auto-discovery messages sent by the handler that ran last.
ConfigCalls ==
    {i \in 1..Len(wire) : wire[i].op = "publish" /\ wire[i].topic = "config"}

\* The state payloads sent by the handler that ran last.
StateCalls ==
    {i \in 1..Len(wire) : wire[i].op = "publish" /\ wire[i].topic = "state"}

\* C1: back-off schedule.  In a burst that starts with retry_count = 0 and
\* in which every connect fails, the failed attempts 1 to 4 each arm the
\* retry CONNECTION_RETRY_INTERVAL seconds later, and the failed fifth
\* attempt arms the next one reconnect_interval seconds later and resets
\* retry_count to 0: CONNECTION_TRIES attempts at the fast spacing, then
\* the cooldown.
C1_BackoffSchedule ==
    \A i \in ConnectCalls :
        ~wire[i].ok =>
            /\ wire[i].n \in 1..(CONNECTION_TRIES - 1)
                    => wire[i].next = CONNECTION_RETRY_INTERVAL
            /\ wire[i].n = CONNECTION_TRIES
                    => wire[i].next = pub.reconnect_interval /\ wire[i].rc = 0

\* C2: no connection attempt is made before the scheduled next-attempt
\* time: a connect call is never closer to the previous attempt than the
\* retry delay that the previous, failed attempt armed.
C2_NoEarlyAttempt ==
    \A i \in ConnectCalls : wire[i].age >= wire[i].delay

\* The keys of the state payload sent as call i of the last handler.
KeySet(w, i) == {w[i].keys[k] : k \in 1..Len(w[i].keys)}

\* A device holds readings that no publish pass has picked up yet.
HasUnpublishedData(id) == ~dev[id].is_published /\ dev[id].has_accumulation

RECURSIVE SumSeq(_)
SumSeq(q) == IF q = <<>> THEN 0 ELSE Head(q) + SumSeq(Tail(q))

\* The last k elements of q.
LastK(q, k) == SubSeq(q, Len(q) - k + 1, Len(q))

\* C4: rolling average.  After m >= 1 calls of new_reading the average is
\* the arithmetic mean of the last min(m, N) recorded values and the last
\* reading is the most recent value; fed 1,2,3,4,5,6 with N = 5 the average
\* is 4 and the last reading 6.
C4_RollingAverage ==
    LET m == Len(readings)
        k == Min(m, average_points)
        avg == get_current_average(acc)
    IN  m >= 1 =>
            /\ avg.num * k = SumSeq(LastK(readings, k)) * avg.den
            /\ get_last_reading(acc) = readings[m]
            /\ readings = <<1, 2, 3, 4, 5, 6>>
                    => avg.num = 4 * avg.den /\ get_last_reading(acc) = 6

\* The accumulator has been fed 1,2,3,4,5,6: the first slot was overwritten.
C4_Witness ==
    /\ readings = <<1, 2, 3, 4, 5, 6>>
    /\ acc.last_reading_set[0] = 6
    /\ get_current_average(acc) = [num |-> 20, den |-> 5]

\* C5: frame search validity.  Called on a buffer of 20 bytes that is a
\* valid message, find_message returns its offset; called on a valid
\* message in which one bit was flipped, it does not return the offset of
\* that message.
C5_FrameSearchValidity ==
    fm.called =>
        /\ (fm.flip = NoFlip /\ fm.prefix = <<>>) => fm.result = 0
        /\ fm.flip # NoFlip => fm.result # Len(fm.prefix)

\* C6: frame re-sync.  With one header byte 0x16 that starts no valid
\* message immediately ahead of a valid message, find_message returns the
\* offset of the valid message.
C6_FrameResync ==
    ( /\ fm.called
      /\ fm.flip = NoFlip
      /\ fm.prefix # <<>>
      /\ fm.prefix[Len(fm.prefix)] = HEADER_BYTE_0 )
        => fm.result = Len(fm.prefix)

\* C7: only valid messages are decoded.  Every window that loop() hands to
\* parse() starts with 0x16 0x11 0x0B and sums to 0 modulo 256.
C7_OnlyValidDecoded == decoded # <<>> => IsValidMessage(decoded)

\* The publisher is enabled and configured: publish() gets past its first test
\* once setup() has created the client.
Operational == pub.enabled /\ pub.server_set /\ pub.devices # NullDevices

\* The handler that ran last made a failed attempt and armed the fast retry.
FastRetryArmed ==
    \E i \in ConnectCalls : ~wire[i].ok /\ wire[i].next = CONNECTION_RETRY_INTERVAL

\* The handler that ran last made a failed attempt and armed the cooldown.
CooldownArmed ==
    \E i \in ConnectCalls : ~wire[i].ok /\ wire[i].next = pub.reconnect_interval

\* The handler that ran last sent a state payload on a live connection.
Published == pub.connected /\ StateCalls # {}

\* C8: automatic recovery.  While the publisher is enabled and configured:
\* if the broker stays unreachable, bursts of fast retries and cooldowns
\* recur for ever; if the broker becomes and stays reachable, the publisher
\* connects and publishes, again and again.
C8_AutomaticRecovery ==
    /\ <>[](Operational /\ ~broker_up /\ ~pub.connected)
            => ([]<>FastRetryArmed /\ []<>CooldownArmed)
    /\ <>[](Operational /\ broker_up) => []<>Published

\* C9: reconnect on loss.  When the link was lost after a connection had
\* been established, the next publish() of an enabled and configured
\* publisher calls connect within that invocation, as the first attempt of
\* a fresh burst.
C9_ReconnectOnLoss ==
    [][( /\ RunPublish
         /\ Operational
         /\ pub.mqttClient
         /\ ~pub.connected
         /\ pub.mqtt_state = MQTT_CONNECTION_LOST )
        => \E i \in ConnectCalls' : wire'[i].ok \/ wire'[i].n = 1
    ]_vars

\* C10: post-connect side effects.  Every successful connect is followed at
\* once by one retained "online" message and then by the auto-discovery
\* messages, all ahead of any state payload; no "online" message follows a
\* failed attempt; and the handler sends exactly one "online" message per
\* transition from not connected to connected.
C10_PostConnect ==
    /\ \A i \in ConnectCalls :
          wire[i].ok =>
            /\ i + 1 \in OnlineCalls
            /\ wire[i + 1].retained
            /\ \A j \in ConfigCalls : j > i + 1
            /\ \A j \in StateCalls : \A k \in ConfigCalls \cup {i + 1} : j > k
    /\ \A j \in OnlineCalls : j - 1 \in ConnectCalls /\ wire[j - 1].ok
    /\ Cardinality(OnlineCalls)
          = Cardinality({i \in ConnectCalls : wire[i].ok /\ ~wire[i].was})

(***************************************************************************)
(* The publish pass of MqttPublisher::publish                              *)
(***************************************************************************)
\* publish() gets past its first test (MqttPublisher.cpp:295-301).
PublishRuns ==
    pub.enabled /\ pub.mqttClient /\ pub.server_set /\ pub.devices # NullDevices

C12_TimestampOnEveryCycle ==
    [][(RunPublish /\ PublishRuns) => pub'.publish_age = 0]_vars

\* C13: no state payload while disconnected.  Within one publish() every
\* connect call comes before the state transmit, a state payload is sent
\* only on a connected client, and when the client is still not connected
\* after the connection step the pass is aborted: no device is polled or
\* marked published, nothing is transmitted, the publish bookkeeping stays.
C13_NoTransmitWhileDisconnected ==
    [][RunPublish
        => /\ \A i \in ConnectCalls' : \A j \in StateCalls' : i < j
           /\ StateCalls' # {} => pub'.connected
           /\ ~pub'.connected
                => /\ StateCalls' = {}
                   /\ dev' = dev
                   /\ pub'.tried_publish = pub.tried_publish
                   /\ pub'.last_publish_failed = pub.last_publish_failed
    ]_vars

\* The first publish() found the broker down: one failed connect call, no
\* pass, the attached device still unpublished.
C13_Witness ==
    /\ PublishRuns
    /\ ~pub.connected
    /\ ~pub.tried_publish
    /\ \E i \in ConnectCalls : ~wire[i].ok /\ wire[i].delay = 0
    /\ StateCalls = {}
    /\ \A id \in Ids(pub.devices) : ~dev[id].is_published

\* C14: suppressed when unconfigured.  While the publisher is disabled, the
\* server address is empty or no device list is attached, publish() makes
\* no connect call and no transmit and leaves retry_count, tried_publish,
\* last_publish_failed and previous_publish_ms as they were.  A retry that
\* runs while the publisher is disabled or the address is empty makes no
\* connect call and arms no further retry.
C14_SuppressedWhenUnconfigured ==
    [][ /\ (RunPublish /\ (~pub.enabled \/ ~pub.server_set \/ pub.devices = NullDevices))
            => /\ wire' = <<>>
               /\ pub'.retry_count = pub.retry_count
               /\ pub'.tried_publish = pub.tried_publish
               /\ pub'.last_publish_failed = pub.last_publish_failed
               /\ pub'.publish_age = pub.publish_age
        /\ (RunReconnect /\ (~pub.enabled \/ ~pub.server_set))
            => /\ wire' = <<>>
               /\ pub'.connect_ticker = pub.connect_ticker
               /\ pub'.retry_count = pub.retry_count
    ]_vars

\* A retry armed by a failed attempt has fired and run while the publisher
\* was disabled or without address: no timer is armed, nothing is queued.
C14_Witness ==
    /\ ~pub.enabled \/ ~pub.server_set
    /\ pub.mqttClient
    /\ hist.delay > 0
    /\ pub.connect_ticker = Inactive
    /\ scheduled = <<>>

(***************************************************************************)
(* The publish interval changed at run time                                *)
(***************************************************************************)
\* Values of the update_interval setting, in seconds.
Intervals == {2, 3, 4}

\* update_interval.set(v) from the web interface
SetUpdateInterval ==
    /\ \E v \in Intervals \ {pub.update_interval} :
          pub' = [pub EXCEPT !.update_interval = v]
    /\ wire' = <<>>
    /\ UNCHANGED <<dev, scheduled, broker_up, booted, hist, registry, sensorVars>>

NextInterval ==
    \/ SetUpdateInterval
    \/ NextLive

SpecInterval == InitLive /\ [][NextInterval]_vars

\* C15: interval reconfiguration.  After every loop() current_publish_seconds
\* equals update_interval; a loop() that finds update_interval different
\* from the armed period re-arms the publish timer at once with the new
\* period, whatever was left of the old one.
C15_IntervalReconfiguration ==
    [][Loop
        => /\ pub'.current_publish_seconds = pub'.update_interval
           /\ pub.current_publish_seconds # pub.update_interval
                => pub'.publish_ticker = pub.update_interval
    ]_vars

\* The period was raised from 2 s to 4 s one second into a period, and
\* loop() has re-armed the timer with the full new period.
C15_Witness ==
    /\ pub.tried_publish
    /\ pub.connected
    /\ pub.publish_age = 1
    /\ pub.update_interval = 4
    /\ pub.current_publish_seconds = 4
    /\ pub.publish_ticker = 4

(***************************************************************************)
(* Accumulator: the empty accumulator and the age of the last sample       *)
(***************************************************************************)
\* C16: the empty accumulator.  As long as new_reading has never been
\* called, has_accumulation() is false, get_sample_count() is 0, and
\* get_current_average() and get_last_reading() return unset_value.
C16_EmptyAccumulator ==
    readings = <<>>
        => /\ ~has_accumulation(acc)
           /\ get_sample_count(acc) = 0
           /\ get_current_average(acc) = [num |-> unset_value, den |-> 1]
           /\ get_last_reading(acc) = unset_value

\* The accumulator as constructed, no slot of last_reading_set written.
C16_Witness ==
    /\ readings = <<>>
    /\ acc.current_index = 0
    /\ \A i \in DOMAIN acc.last_reading_set : acc.last_reading_set[i] = Uninitialized

\* millis() is a uint32_t that wraps to 0; the model counts it modulo a
\* smaller number.
ClockModulus == 16

\* The longest time between two steps of the model, in clock units.
MaxStep == 3

\* Accumulator::get_last_sample_age, an unsigned difference.
get_last_sample_age(a, now) == (now - a.last_sample_time) % ClockModulus

\* The reading recorded by the sensor of SpecAge.
SampleValue == 7

InitAge ==
    /\ IdleMqtt
    /\ IdleAux
    /\ IdleVind
    /\ IdleFind
    /\ millis \in 0..(ClockModulus - 1)
    /\ acc = InitAccumulator
    /\ readings = <<>>

\* Time passes.
AdvanceClock ==
    /\ \E d \in 1..MaxStep : millis' = (millis + d) % ClockModulus
    /\ UNCHANGED <<mqttVars, auxVars, acc, readings, vindVars, fm>>

\* A sensor calls new_reading at the current time.
Sample ==
    /\ Len(readings) < MaxReadings
    /\ acc' = new_reading(acc, SampleValue, millis)
    /\ readings' = Append(readings, SampleValue)
    /\ UNCHANGED <<mqttVars, auxVars, millis, vindVars, fm>>

NextAge == AdvanceClock \/ Sample

\* An accumulator read at any time of a wrapping clock.
SpecAge == InitAge /\ [][NextAge]_vars

\* C17: sample age monotonicity.  Once a reading has been recorded, the
\* value of get_last_sample_age() does not decrease as time advances, until
\* the next call of new_reading; the clock may wrap in between.
C17_SampleAgeMonotonic ==
    [][(AdvanceClock /\ has_accumulation(acc))
        => get_last_sample_age(acc, millis') >= get_last_sample_age(acc, millis)
    ]_vars

(***************************************************************************)
(* The receive buffer of VindriktningAirQuality::loop                      *)
(***************************************************************************)
\* loop() gets past its two early returns and reads.
VindReads == vind.enabled /\ serial # <<>>

\* The device as the read of the next loop() leaves it, before the search.
AfterRead ==
    vind_read([vind |-> vind, acc |-> acc, readings |-> readings,
               serial |-> serial, decoded |-> <<>>]).vind

\* What find_message returns in the next loop(), if the search is made.
Found == find_message(AfterRead.buffer, AfterRead.rxBufIdx)

\* C18: buffer compaction after decode.  When loop() finds a frame at
\* offset o among the n bytes in the buffer, it leaves n - (o + 20) bytes,
\* and byte i of the buffer is then what byte o + 20 + i was: everything
\* up to the end of the frame is dropped, what follows is kept in order.
C18_BufferCompaction ==
    [][(VindLoop /\ VindReads /\ AfterRead.rxBufIdx >= vindriktning_message_size
                 /\ Found # NullPtr)
        => LET n == AfterRead.rxBufIdx
               o == Found
           IN  /\ vind'.rxBufIdx = n - (o + vindriktning_message_size)
               /\ \A i \in 0..(n - o - vindriktning_message_size - 1) :
                     vind'.buffer[i] = AfterRead.buffer[o + vindriktning_message_size + i]
    ]_vars

\* A frame was decoded and bytes that followed it are kept in the buffer.
C18_Witness ==
    /\ decoded # <<>>
    /\ vind.rxBufIdx > 0
    /\ vind.last_read_state = "READ"

\* C19: no frame found.  When the buffer holds at least 20 bytes after the
\* read and find_message returns nullptr, loop() sets the status to
\* NO_HEADER_FOUND, records no reading, leaves the published flag alone and
\* keeps the bytes and the byte count the read left.
C19_NoFrameFound ==
    [][(VindLoop /\ VindReads /\ AfterRead.rxBufIdx >= vindriktning_message_size
                 /\ Found = NullPtr)
        => /\ vind'.last_read_state = "NO_HEADER_FOUND"
           /\ acc' = acc
           /\ readings' = readings
           /\ vind'.last_read_millis = vind.last_read_millis
           /\ vind'.is_published = vind.is_published
           /\ vind'.buffer = AfterRead.buffer
           /\ vind'.rxBufIdx = AfterRead.rxBufIdx
    ]_vars

\* Twenty or more bytes are buffered, no frame was found, nothing decoded.
C19_Witness ==
    /\ vind.last_read_state = "NO_HEADER_FOUND"
    /\ vind.rxBufIdx >= vindriktning_message_size
    /\ readings = <<>>
    /\ decoded = <<>>

\* C20: bounded receive buffer.  rxBufIdx stays within 0..buffer_size and
\* the buffer keeps its buffer_size bytes; a loop() that reads takes at
\* least one byte and stores what it takes inside the buffer; and a loop()
\* that finds the buffer full with serial data waiting starts again from an
\* empty buffer, so that only bytes of this read are left in it.
C20_BoundedBuffer ==
    [][VindLoop
        => /\ vind'.rxBufIdx \in 0..buffer_size
           /\ DOMAIN vind'.buffer = 0..(buffer_size - 1)
           /\ VindReads
                => LET idx == IF vind.rxBufIdx >= buffer_size THEN 0 ELSE vind.rxBufIdx
                       n == Len(serial) - Len(serial')
                   IN  /\ n >= 1
                       /\ idx + n <= buffer_size
                       /\ vind.rxBufIdx >= buffer_size => vind'.rxBufIdx <= n
    ]_vars

\* The buffer ran full of noise without a frame, and a later loop() has
\* started it again: it now holds a few bytes, no frame was ever decoded.
C20_Witness ==
    /\ vind.last_read_state = "NO_HEADER_FOUND"
    /\ vind.rxBufIdx \in 1..(vindriktning_message_size - 1)
    /\ readings = <<>>

(***************************************************************************)
(* An application with the signal-strength device, a DHT sensor and a      *)
(* sensor of its own: the publisher is enabled and configured, the broker  *)
(* is reachable, the link drops, devices are enabled and disabled at run   *)
(* time and take readings.                                                 *)
(***************************************************************************)
InitDevices ==
    /\ IdleSensors
    /\ registry = Application
    /\ \E cfg \in Configs :
          pub = [InitPub(cfg) EXCEPT !.enabled = TRUE, !.server_set = TRUE]
    /\ dev = InitDev(registry)
    /\ scheduled = <<>>
    /\ broker_up = TRUE
    /\ booted = FALSE
    /\ wire = <<>>
    /\ hist = [n |-> 0, delay |-> 0]

\* An attached sensor records a reading: new_reading followed by
\* clear_is_published.  WifiSetup records nothing.
SensorReading ==
    /\ \E id \in Ids(registry) \ {"wifi_setup"} :
          /\ dev[id].enabled
          /\ dev' = clear_is_published([dev EXCEPT ![id].has_accumulation = TRUE], id)
    /\ wire' = <<>>
    /\ UNCHANGED <<pub, scheduled, broker_up, booted, hist, registry, sensorVars>>

\* publish_rssi.set, from the configuration file or the web interface
SetPublishRssi ==
    /\ "wifi_setup" \in Ids(registry)
    /\ dev' = [dev EXCEPT !["wifi_setup"].publish_rssi = ~@]
    /\ wire' = <<>>
    /\ UNCHANGED <<pub, scheduled, broker_up, booted, hist, registry, sensorVars>>

NextDevices ==
    \/ SetDevices
    \/ SetDeviceEnabled
    \/ SetPublishRssi
    \/ SensorReading
    \/ LinkLost
    \/ Boot
    \/ Loop
    \/ PublishTickerFires
    \/ RunPublish
    \/ Tick

SpecDevices == InitDevices /\ [][NextDevices]_vars

\* The auto-discovery messages sent by the handler that ran last, in the
\* order sent.
ConfigMessages ==
    SelectSeq(wire, LAMBDA m : m.op = "publish" /\ m.topic = "config")

\* Position of x in the sequence q.
Pos(q, x) == CHOOSE i \in 1..Len(q) : q[i] = x

\* C21: auto-discovery coverage.  A handler that connects sends after the
\* "online" message exactly one retained message for each definition of each
\* enabled device, on the topic homeassistant/sensor/<prefix>/<identifier>
\* <unique_id_suffix>/config, devices in registry order and the definitions
\* of a device in their order, and sends none for a disabled device; a
\* handler that does not connect sends no auto-discovery message.
C21_AutoDiscoveryCoverage ==
    LET cfgs == ConfigMessages
    IN  IF OnlineCalls = {}
        THEN cfgs = <<>>
        ELSE /\ \A k \in 1..Len(cfgs) :
                   /\ cfgs[k].device \in Ids(pub.devices)
                   /\ dev[cfgs[k].device].enabled
                   /\ cfgs[k].suffix \in Ids(Definitions(cfgs[k].device))
                   /\ cfgs[k].retained
                   /\ cfgs[k].path = <<"homeassistant/sensor/", pub.prefix, "/",
                                       pub.identifier, cfgs[k].suffix, "/config">>
             /\ \A id \in Ids(pub.devices) : \A s \in Ids(Definitions(id)) :
                   Cardinality({k \in 1..Len(cfgs) :
                                   cfgs[k].device = id /\ cfgs[k].suffix = s})
                      = IF dev[id].enabled THEN 1 ELSE 0
             /\ \A k, l \in 1..Len(cfgs) :
                   k < l =>
                      \/ Pos(pub.devices, cfgs[k].device) < Pos(pub.devices, cfgs[l].device)
                      \/ /\ cfgs[k].device = cfgs[l].device
                         /\ Pos(Definitions(cfgs[k].device), cfgs[k].suffix)
                               < Pos(Definitions(cfgs[l].device), cfgs[l].suffix)

\* A handler has connected with the DHT sensor enabled and another device
\* disabled: it sent the two messages of the DHT sensor, in their order.
C21_Witness ==
    /\ OnlineCalls # {}
    /\ dev["dht"].enabled
    /\ \E id \in Ids(registry) : ~dev[id].enabled
    /\ \E k \in 1..Len(ConfigMessages) - 1 :
          /\ ConfigMessages[k].suffix = "_dht_temperature"
          /\ ConfigMessages[k + 1].suffix = "_dht_humidity"

\* C22: auto-discovery skips capabilities without attributes.  No
\* auto-discovery message is sent for a definition whose
\* get_json_attributes_template() is nullptr.
C22_SkipsWithoutAttributes ==
    \A k \in 1..Len(ConfigMessages) :
        get_json_attributes_template(ConfigMessages[k].suffix) # "nullptr"

\* C24: the signal-strength device is always unpublished.  WifiSetup's
\* get_is_published() is false in every state, also after the publisher has
\* marked the device published; so every publish pass that runs while
\* WifiSetup is enabled polls it, and the payload holds the "wifi" key
\* exactly when publish_rssi is set.
C24_WifiAlwaysUnpublished ==
    [][RunPublish =>
        /\ ~get_is_published(Ctx, "wifi_setup")
        /\ \A i \in StateCalls' :
              dev["wifi_setup"].enabled =>
                  ("wifi" \in KeySet(wire', i) <=> dev["wifi_setup"].publish_rssi)
    ]_vars

\* A publish pass has run on a connection made by an earlier publish(), so
\* WifiSetup had been marked published by that one, and the payload holds
\* the "wifi" key again.
C24_Witness ==
    /\ ConnectCalls = {}
    /\ dev["wifi_setup"].is_published
    /\ \E i \in StateCalls : "wifi" \in KeySet(wire, i)

(***************************************************************************)
(* A DHT sensor with its temperature accumulator, and an analog sensor,    *)
(* attached to an enabled and configured publisher with the broker         *)
(* reachable.                                                              *)
(***************************************************************************)
\* Temperatures the DHT sensor reports.
DhtValues == {1, 3}

\* Number of readings the DHT sensor takes.
MaxDhtReadings == 3

InitSensors ==
    /\ IdleSensors
    /\ registry = Sensors
    /\ \E cfg \in Configs :
          pub = [InitPub(cfg) EXCEPT !.enabled = TRUE, !.server_set = TRUE]
    /\ dev = InitDev(registry)
    /\ scheduled = <<>>
    /\ broker_up = TRUE
    /\ booted = FALSE
    /\ wire = <<>>
    /\ hist = [n |-> 0, delay |-> 0]

\* The DHT sensor's data callback: temperature.new_reading followed by
\* clear_is_published (DhtSensor.cpp:159-165).
DhtReading ==
    /\ dev["dht"].enabled
    /\ Len(readings) < MaxDhtReadings
    /\ \E v \in DhtValues :
          /\ acc' = new_reading(acc, v, millis)
          /\ readings' = Append(readings, v)
          /\ since' = Append(since, v)
    /\ pending' = pending \cup {"dht"}
    /\ dev' = clear_is_published([dev EXCEPT !["dht"].has_accumulation = TRUE], "dht")
    /\ wire' = <<>>
    /\ UNCHANGED <<pub, scheduled, broker_up, booted, hist, registry,
                   millis, vindVars, fm, line, driverVars>>

\* The analog sensor's timer callback: new_reading followed by
\* clear_is_published (AbstractAnalog.cpp:95-106).
AnalogReading ==
    /\ dev["basic_analog"].enabled
    /\ dev' = clear_is_published(
                 [dev EXCEPT !["basic_analog"].has_accumulation = TRUE], "basic_analog")
    /\ pending' = pending \cup {"basic_analog"}
    /\ wire' = <<>>
    /\ UNCHANGED <<pub, scheduled, broker_up, booted, hist, registry,
                   accVars, vindVars, fm, since, line, driverVars>>

\* The main loop runs the scheduled publish(); a pass that renders the DHT
\* sensor (AbstractTemperaturePressureSensor::publish, a const method) ends
\* the run of readings recorded since it was last rendered, and a sensor
\* that is rendered has no reading pending any more.
RunPublishSensors ==
    /\ scheduled # <<>> /\ Head(scheduled) = "publish"
    /\ \E tx_ok \in BOOLEAN :
          LET c == publish([Ctx EXCEPT !.q = Tail(scheduled)], broker_up, tx_ok)
              rendered == \E i \in 1..Len(c.w) :
                             /\ c.w[i].op = "publish" /\ c.w[i].topic = "state"
                             /\ "dht" \in KeySet(c.w, i)
              keys == UNION {KeySet(c.w, i) : i \in {j \in 1..Len(c.w) :
                                c.w[j].op = "publish" /\ c.w[j].topic = "state"}}
          IN  /\ Commit(c)
              /\ since' = IF rendered THEN <<>> ELSE since
              /\ pending' = pending \ keys
    /\ UNCHANGED <<broker_up, booted, registry, accVars, vindVars, fm, line,
                   driverVars>>

NextSensors ==
    \/ SetDevices
    \/ SetDeviceEnabled
    \/ DhtReading
    \/ AnalogReading
    \/ Boot
    \/ PublishTickerFires
    \/ RunPublishSensors
    \/ Tick

SpecSensors == InitSensors /\ [][NextSensors]_vars

\* C23: the published average covers the readings since the last publish.
\* Whenever a publish pass renders the DHT sensor, the average it renders
\* (Accumulator::as_json: get_current_average) is the mean of exactly the
\* readings recorded since the sensor was last rendered.
C23_AverageSinceLastPublish ==
    [][(RunPublishSensors /\ \E i \in StateCalls' : "dht" \in KeySet(wire', i)) =>
        LET average == get_current_average(acc)
        IN  /\ since # <<>>
            /\ average.num * Len(since) = SumSeq(since) * average.den
    ]_vars

Frame(pm, other) ==
    LET body == <<HEADER_BYTE_0, HEADER_BYTE_1, HEADER_BYTE_2, other, 0,
                  pm \div 256, pm % 256, 0, 0, 0, 0, 0, 0, 0, 0, 0, 0, 0, 0>>
    IN  Append(body, (256 - (SumBytes(body) % 256)) % 256)

\* Messages the sensor sends: the largest reading, and a reading whose two
\* bytes differ, with two values of a byte outside the reading.
Frames == {Frame(65535, 0), Frame(256, 0), Frame(256, 100)}

\* Number of messages in a stream.
MaxFrames == 5

RECURSIVE FrameStreams(_)
FrameStreams(n) ==
    IF n = 0 THEN {<<>>}
    ELSE LET shorter == FrameStreams(n - 1)
         IN  shorter \cup {q \o f : q \in shorter, f \in Frames}

\* Value of millis() while the stream is decoded.
UpMillis == 1000

InitDecode ==
    /\ IdleMqtt
    /\ IdleAux
    /\ IdleFind
    /\ millis = UpMillis /\ acc = InitAccumulator /\ readings = <<>>
    /\ vind = InitVind(0)
    /\ serial = <<>>
    /\ stream \in FrameStreams(MaxFrames) \ {<<>>}
    /\ decoded = <<>>

\* SoftwareSerial has received the next message of the stream.
FrameArrives ==
    /\ stream # <<>>
    /\ serial = <<>>
    /\ serial' = SubSeq(stream, 1, vindriktning_message_size)
    /\ stream' = SubSeq(stream, vindriktning_message_size + 1, Len(stream))
    /\ decoded' = <<>>
    /\ UNCHANGED <<mqttVars, auxVars, accVars, vind, fm>>

\* A publish pass of MqttPublisher::publish polls the device and marks it
\* published.
MarkPublished ==
    /\ vind.enabled /\ ~vind.is_published
    /\ vind' = [vind EXCEPT !.is_published = TRUE]
    /\ decoded' = <<>>
    /\ UNCHANGED <<mqttVars, auxVars, accVars, serial, stream, fm>>

\* Device::set_enabled on the VindriktningAirQuality
SetVindEnabled ==
    /\ vind' = [vind EXCEPT !.enabled = ~@]
    /\ decoded' = <<>>
    /\ UNCHANGED <<mqttVars, auxVars, accVars, serial, stream, fm>>

NextDecode ==
    \/ FrameArrives
    \/ VindLoop
    \/ MarkPublished
    \/ SetVindEnabled

SpecDecode == InitDecode /\ [][NextDecode]_vars

\* C29: frame decode.  A loop() that finds a message records exactly
\* 256 * data[5] + data[6] of that message as the new reading, a value in
\* 0..65535, sets the read state to READ and clears the published flag;
\* messages that differ in another byte give the same reading.
C29_FrameDecode ==
    [][(VindLoop /\ decoded' # <<>>) =>
        LET value == 256 * decoded'[6] + decoded'[7]
        IN  /\ value \in 0..65535
            /\ readings' = Append(readings, value)
            /\ get_last_reading(acc') = value
            /\ get_sample_count(acc') = Min(get_sample_count(acc) + 1, average_points)
            /\ vind'.last_read_state = "READ"
            /\ ~vind'.is_published
    ]_vars

\* The message with byte 3 = 100 for the reading 256 has been decoded after
\* the message with byte 3 = 0 for the same reading: both recorded 256.
C29_Witness ==
    /\ decoded = Frame(256, 100)
    /\ Len(readings) >= 2
    /\ LastK(readings, 2) = <<256, 256>>
    /\ vind.last_read_state = "READ"

\* The readings the accumulator averages: slots 0 .. count - 1.
WindowSlots == {i \in 0..(average_points - 1) : i < get_sample_count(acc)}

RECURSIVE SumOver(_, _)
\* Sum of f over the set S.
SumOver(f, S) ==
    IF S = {} THEN 0
    ELSE LET x == CHOOSE y \in S : TRUE
         IN  f[x] + SumOver(f, S \ {x})

\* C25: the PM2.5 sum never overflows.  Whatever messages have been decoded,
\* the sum of the readings the pm25 accumulator averages is below 2^32
\* (its upper 16 bits, formed from the halves of the readings, stay below
\* 2^16), every reading being at most 65535; so the 32-bit sum does not wrap
\* and the average is the mean of the window.
C25_SumNeverOverflows ==
    LET high == [i \in WindowSlots |-> acc.last_reading_set[i] \div Pow2(16)]
        low == [i \in WindowSlots |-> acc.last_reading_set[i] % Pow2(16)]
    IN  /\ SumOver(high, WindowSlots) + (SumOver(low, WindowSlots) \div Pow2(16))
              < Pow2(16)
        /\ \A i \in WindowSlots : acc.last_reading_set[i] < Pow2(16)
        /\ get_current_average(acc).num
              = SumSeq(LastK(readings, get_sample_count(acc)))

\* Five messages with the largest reading have been decoded: the window
\* holds 65535 five times.
C25_Witness ==
    /\ get_sample_count(acc) = average_points
    /\ \A i \in WindowSlots : acc.last_reading_set[i] = 65535
    /\ get_current_average(acc).num = 5 * 65535

\* VindriktningAirQuality::get_status: the pieces appended to state_message,
\* <<>> for the empty string.  millis() - last_read_millis is formed in 32
\* bits; here millis() is never behind last_read_millis.
get_status(v, a, now) ==
    LET state_message ==
            IF v.last_read_millis > 0
            THEN <<get_last_reading(a), "ug/m3, ",
                   (now - v.last_read_millis) \div 1000,
                   " seconds since last reading. ">>
            ELSE <<>>
    IN  CASE v.last_read_state = "NEVER_READ" -> <<"Never got a reading.">>
          [] v.last_read_state = "NO_HEADER_FOUND" ->
                <<"Did not find a header in the last 20 bytes read.">>
          [] v.last_read_state = "READ" -> state_message
          [] OTHER -> <<"Something went wrong.">>

\* C26: get_status() returns an empty string whenever the device is
\* disabled, in every read state.
C26_StatusEmptyWhenDisabled ==
    ~vind.enabled => get_status(vind, acc, millis) = <<>>

(***************************************************************************)
(* Device::dataline_to_index (Device.h / Device.cpp)                       *)
(***************************************************************************)
\* Device::D1, D2, D3, D5, D6, D7: the GPIO numbers of the usable data lines.
D1 == 5
D2 == 4
D3 == 0
D5 == 14
D6 == 12
D7 == 13

\* Device::settingsMap
settingsMap == [i \in 0..5 |-> <<D1, D2, D3, D5, D6, D7>>[i + 1]]

\* std::find(&settingsMap[0], &settingsMap[6], value) - &settingsMap[0]
find(value) ==
    IF \E i \in DOMAIN settingsMap : settingsMap[i] = value
    THEN CHOOSE i \in DOMAIN settingsMap :
            /\ settingsMap[i] = value
            /\ \A j \in DOMAIN settingsMap : settingsMap[j] = value => i <= j
    ELSE 6

\* Device::dataline_to_index
dataline_to_index(index) == Min(find(index), 5)

\* Data lines passed to dataline_to_index: GPIO numbers and values that are
\* no GPIO number.
MinDataLine == -10
MaxDataLine == 50

InitLine ==
    /\ IdleMqtt
    /\ IdleVind
    /\ IdleFind
    /\ millis = 0 /\ acc = InitAccumulator /\ readings = <<>>
    /\ since = <<>>
    /\ pending = {}
    /\ IdleDrivers
    /\ \E dataLine \in MinDataLine..MaxDataLine :
          line = [dataLine |-> dataLine, called |-> FALSE, result |-> 0]

\* A device calls dataline_to_index(dataLine).
CallDatalineToIndex ==
    /\ ~line.called
    /\ line' = [line EXCEPT !.called = TRUE,
                            !.result = dataline_to_index(line.dataLine)]
    /\ UNCHANGED <<mqttVars, accVars, vindVars, fm, since, pending, driverVars>>

NextLine == CallDatalineToIndex

SpecLine == InitLine /\ [][NextLine]_vars

\* C27: dataline_to_index returns 0, the index of D1, for every data line
\* that is not one of D1, D2, D3, D5, D6, D7, and for one of these the index
\* i with settingsMap[i] equal to the line.
C27_DatalineToIndex ==
    line.called =>
        IF line.dataLine \in {D1, D2, D3, D5, D6, D7}
        THEN settingsMap[line.result] = line.dataLine
        ELSE line.result = 0

C32_NoReadingMasked ==
    [][RunPublishSensors =>
        \A i \in StateCalls' : \A id \in pending :
            dev[id].enabled =>
                /\ json_key(id) \in KeySet(wire', i)
                /\ id = "dht" =>
                      /\ since # <<>>
                      /\ get_last_reading(acc') = since[Len(since)]
                      /\ acc'.last_reading_set[
                            (acc'.current_index + average_points - 1) % average_points]
                               = since[Len(since)]
    ]_vars

\* A publish pass on a connection made by an earlier publish() has included
\* the DHT sensor, which had recorded a reading after an earlier one, and
\* the analog sensor.
C32_Witness ==
    /\ ConnectCalls = {}
    /\ \E i \in StateCalls : KeySet(wire, i) = {"dht", "basic_analog"}
    /\ Len(readings) >= 2
    /\ pending = {}

\* C33: retry counter bounds.  When reconnect() has returned, retry_count
\* lies in 0 .. CONNECTION_TRIES.  A publish() that starts a connection
\* burst calls reconnect() with retry_count = 0: the count is 0 after a
\* successful and 1 after a failed connect.  A successful connect leaves
\* retry_count as reconnect() found it and arms no retry timer.
C33_RetryCounterBounds ==
    [][(RunPublish \/ RunReconnect) =>
        /\ pub'.retry_count \in 0..CONNECTION_TRIES
        /\ \A i \in ConnectCalls' :
              /\ wire'[i].rc = pub'.retry_count
              /\ RunPublish => wire'[i].rc = IF wire'[i].ok THEN 0 ELSE 1
              /\ wire'[i].ok =>
                    /\ RunReconnect => pub'.retry_count = pub.retry_count
                    /\ pub'.connect_ticker = pub.connect_ticker
    ]_vars

\* A retry has connected after failed attempts: retry_count keeps the number
\* of the failed attempts and no retry is armed.
C33_Witness ==
    /\ \E i \in ConnectCalls : wire[i].ok
    /\ pub.retry_count > 0
    /\ pub.connect_ticker = Inactive

(***************************************************************************)
(* The bytes find_message examines.  loop() calls it on the receive buffer *)
(* with byte_count = rxBufIdx, between 20 and 40; the buffer holds what    *)
(* the serial line delivered.                                              *)
(***************************************************************************)
\* The indices memchr(&mem[from], c, n) examines: up to the first match, or
\* all n when there is none in the buffer.
memchr_reads(mem, from, c, n) ==
    LET hit == memchr(mem, from, c, n)
    IN  IF hit = NullPtr THEN from..(from + n - 1) ELSE from..hit

\* The indices the loop condition of find_message examines at a candidate:
\* candidate[1], then candidate[2], then the 20 bytes of the checksum, each
\* only if the test before it held.
header_reads(mem, candidate) ==
    {candidate + 1}
    \cup (IF mem[candidate + 1] # HEADER_BYTE_1 THEN {candidate + 2} ELSE {})
    \cup (IF mem[candidate + 1] # HEADER_BYTE_1 /\ mem[candidate + 2] # HEADER_BYTE_2
          THEN candidate..(candidate + vindriktning_message_size - 1) ELSE {})

RECURSIVE find_message_reads_from(_, _, _)
\* The indices examined by the rounds of the do-while loop of find_message
\* from the one entered with the previous candidate.
find_message_reads_from(mem, byte_count, previous) ==
    LET candidate == memchr(mem, previous + 1, HEADER_BYTE_0, byte_count)
        scanned == memchr_reads(mem, previous + 1, HEADER_BYTE_0, byte_count)
    IN  IF candidate = NullPtr THEN scanned
        ELSE IF byte_count - candidate < vindriktning_message_size THEN scanned
        ELSE scanned \cup header_reads(mem, candidate) \cup
             (IF header_mismatch(mem, candidate)
              THEN find_message_reads_from(mem, byte_count, candidate)
              ELSE {})

\* The indices of ptr that find_message(ptr, byte_count) examines.
find_message_reads(mem, byte_count) ==
    find_message_reads_from(mem, byte_count % 256, -1)

\* Twenty bytes that start with 0x16, carry neither 0x11 nor 0x0B after it
\* and sum to 0 modulo 256.
Decoy(pm) ==
    LET body == <<HEADER_BYTE_0, 0, 0, 0, 0,
                  pm \div 256, pm % 256, 0, 0, 0, 0, 0, 0, 0, 0, 0, 0, 0, 0>>
    IN  Append(body, (256 - (SumBytes(body) % 256)) % 256)

\* What the line delivered first, and what followed it.
Leads == {Decoy(pm) : pm \in PmValues} \cup {Message(pm) : pm \in PmValues}

Tails == {<<>>, Message(304), [i \in 1..vindriktning_message_size |-> 0]}

InitScan ==
    /\ IdleMqtt
    /\ IdleAux
    /\ millis = 0 /\ acc = InitAccumulator /\ readings = <<>>
    /\ IdleVind
    /\ \E prefix \in Prefixes, lead \in Leads, tail \in Tails, fill \in Fills :
          LET received == prefix \o lead \o tail
          IN  fm = [mem |-> Memory(received, fill),
                    byte_count |-> Min(Len(received), buffer_size),
                    called |-> FALSE, result |-> NullPtr, reads |-> {}]

\* The call find_message(buffer, rxBufIdx), with the indices it examines.
ScanForMessage ==
    /\ ~fm.called
    /\ fm' = [fm EXCEPT !.called = TRUE,
                        !.result = find_message(fm.mem, fm.byte_count),
                        !.reads = find_message_reads(fm.mem, fm.byte_count)]
    /\ UNCHANGED <<mqttVars, auxVars, accVars, vindVars>>

NextScan == ScanForMessage

SpecScan == InitScan /\ [][NextScan]_vars

\* C34: find_message(ptr, byte_count) examines only the bytes at indices
\* 0 .. byte_count - 1: the scan for the header byte and the checksum window
\* stay inside the valid bytes and inside the receive buffer.
C34_ReadsInsideValidBytes ==
    fm.called =>
        /\ fm.reads \subseteq 0..(fm.byte_count - 1)
        /\ fm.reads \subseteq 0..(buffer_size - 1)

(***************************************************************************)
(* DhtSensor (DhtSensor.h / .cpp) and Sht31Sensor (Sht31Sensor.h / .cpp):  *)
(* the poll timer, the driver and the read requests.  A sensor is a record *)
(* s; queue holds its functions scheduled for the main loop, outstanding   *)
(* counts the read requests issued and not yet answered.                   *)
(***************************************************************************)
\* Poll callbacks that may wait in the queue of scheduled functions.
MaxQueued == 1

\* Readings a sensor delivers.
MaxSensorReadings == 2

\* A reading the sensor delivers, after scaling.
SensorSample == [temperature |-> 20, humidity |-> 50]

\* DhtSensor::DhtSensor and the member initialisers, followed by loading
\* the configuration, which sets enabled.
InitDhtSensor(enabled) ==
    [started |-> FALSE, enabled |-> enabled, dht |-> FALSE, ticker |-> FALSE,
     interval_changed |-> TRUE, requested |-> FALSE, reading |-> FALSE,
     queue |-> <<>>, temperature |-> InitAccumulator, humidity |-> InitAccumulator,
     is_published |-> FALSE, last_status |-> 0, null_read |-> FALSE,
     outstanding |-> 0, reads |-> 0]

\* DhtSensor::set_timer; interval_changed stands for
\* current_polling_seconds != readInterval.get().
dht_set_timer(s) == [s EXCEPT !.interval_changed = FALSE, !.ticker = TRUE]

\* DhtSensor::setup: creates the driver, reset_dht registers the callbacks.
dht_setup(s) ==
    IF ~s.enabled THEN s
    ELSE dht_set_timer([s EXCEPT !.dht = TRUE, !.reading = FALSE])

\* DhtSensor::loop
dht_loop(s) ==
    IF ~s.enabled
    THEN IF s.dht
         THEN [s EXCEPT !.ticker = FALSE, !.dht = FALSE, !.reading = FALSE]
         ELSE s
    ELSE LET s1 == IF ~s.dht THEN dht_setup(s) ELSE s
         IN  IF s1.interval_changed THEN dht_set_timer(s1) ELSE s1

\* The poll callback without the test of requested.
dht_poll_always(s) ==
    IF s.dht
    THEN [s EXCEPT !.requested = TRUE, !.reading = TRUE,
                   !.outstanding = @ + 1]
    ELSE [s EXCEPT !.requested = TRUE, !.null_read = TRUE]

\* The callback of set_timer: dht->read() through the driver pointer;
\* null_read records a call through a null pointer.
dht_poll(s) ==
    IF ~s.requested
    THEN IF s.dht
         THEN [s EXCEPT !.requested = TRUE, !.reading = TRUE,
                        !.outstanding = @ + 1]
         ELSE [s EXCEPT !.requested = TRUE, !.null_read = TRUE]
    ELSE s

\* The onData callback of reset_dht: schedules the recording.
dht_on_data(s) ==
    [s EXCEPT !.last_status = 0, !.reading = FALSE,
              !.queue = Append(@, "data")]

\* The onError callback of reset_dht.
dht_on_error(s, status) ==
    [s EXCEPT !.last_status = status, !.requested = FALSE, !.reading = FALSE,
              !.outstanding = IF @ > 0 THEN @ - 1 ELSE 0]

\* The function scheduled by onData that records the temperature only.
dht_data_temperature_only(s, sample, now) ==
    [s EXCEPT !.temperature = new_reading(@, sample.temperature, now),
              !.is_published = FALSE,
              !.requested = FALSE,
              !.outstanding = IF @ > 0 THEN @ - 1 ELSE 0,
              !.reads = @ + 1]

\* The function scheduled by onData.
dht_data(s, sample, now) ==
    [s EXCEPT !.temperature = new_reading(@, sample.temperature, now),
              !.humidity = new_reading(@, sample.humidity, now),
              !.is_published = FALSE,
              !.requested = FALSE,
              !.outstanding = IF @ > 0 THEN @ - 1 ELSE 0,
              !.reads = @ + 1]

\* Sht31Sensor::Sht31Sensor and the member initialisers, followed by
\* loading the configuration.
InitShtSensor(enabled) ==
    [started |-> FALSE, enabled |-> enabled, available |-> FALSE,
     ticker |-> FALSE, requested |-> FALSE, queue |-> <<>>,
     temperature |-> InitAccumulator, humidity |-> InitAccumulator,
     is_published |-> FALSE, outstanding |-> 0, reads |-> 0]

\* Sht31Sensor::setup; begin_ok: sht.begin and sht.isConnected succeed.
sht_setup(s, begin_ok) ==
    IF ~s.enabled \/ ~begin_ok THEN s
    ELSE [s EXCEPT !.available = TRUE, !.ticker = TRUE,
                   !.outstanding = @ + 1, !.requested = TRUE]

\* The callback of Sht31Sensor::set_timer.
sht_poll(s) ==
    IF ~s.requested
    THEN [s EXCEPT !.outstanding = @ + 1, !.requested = TRUE]
    ELSE s

\* Sht31Sensor::loop; ready: sht.dataReady(), success: sht.readData().
sht_loop(s, ready, success, sample, now) ==
    IF ~s.available \/ ~s.enabled THEN s
    ELSE IF s.requested /\ ready
    THEN LET s1 == IF success
                   THEN [s EXCEPT
                           !.temperature = new_reading(@, sample.temperature, now),
                           !.humidity = new_reading(@, sample.humidity, now),
                           !.is_published = FALSE,
                           !.reads = @ + 1]
                   ELSE s
         IN  [s1 EXCEPT !.requested = FALSE,
                        !.outstanding = IF @ > 0 THEN @ - 1 ELSE 0]
    ELSE s

InitDrivers ==
    /\ IdleMqtt
    /\ IdleVind
    /\ IdleFind
    /\ millis = 0 /\ acc = InitAccumulator /\ readings = <<>>
    /\ since = <<>>
    /\ pending = {}
    /\ line = [dataLine |-> 0, called |-> FALSE, result |-> 0]
    /\ \E enabled \in BOOLEAN : dhtSensor = InitDhtSensor(enabled)
    /\ \E enabled \in BOOLEAN : shtSensor = InitShtSensor(enabled)

DriverFrame == UNCHANGED <<mqttVars, accVars, vindVars, fm, since, line, pending>>

\* The framework calls DhtSensor::setup once at boot.
DhtBoot ==
    /\ ~dhtSensor.started
    /\ dhtSensor' = [dht_setup(dhtSensor) EXCEPT !.started = TRUE]
    /\ UNCHANGED shtSensor /\ DriverFrame

\* The main loop calls DhtSensor::loop.
DhtLoop ==
    /\ dhtSensor.started /\ ~dhtSensor.null_read
    /\ dhtSensor' = dht_loop(dhtSensor)
    /\ UNCHANGED shtSensor /\ DriverFrame

\* Device::set_enabled on the DhtSensor, from the web interface
DhtSetEnabled ==
    /\ ~dhtSensor.null_read
    /\ dhtSensor' = [dhtSensor EXCEPT !.enabled = ~@]
    /\ UNCHANGED shtSensor /\ DriverFrame

\* readInterval.set with a new value, from the web interface
DhtSetReadInterval ==
    /\ ~dhtSensor.null_read
    /\ ~dhtSensor.interval_changed
    /\ dhtSensor' = [dhtSensor EXCEPT !.interval_changed = TRUE]
    /\ UNCHANGED shtSensor /\ DriverFrame

\* The poll ticker fires (attach_scheduled): its callback is queued.
DhtTickerFires ==
    /\ dhtSensor.ticker /\ ~dhtSensor.null_read
    /\ Len(SelectSeq(dhtSensor.queue, LAMBDA f : f = "poll")) < MaxQueued
    /\ dhtSensor' = [dhtSensor EXCEPT !.queue = Append(@, "poll")]
    /\ UNCHANGED shtSensor /\ DriverFrame

\* The driver finishes a read and calls onData or onError.
DhtDelivers ==
    /\ dhtSensor.dht /\ dhtSensor.reading /\ ~dhtSensor.null_read
    /\ \/ /\ dhtSensor.reads < MaxSensorReadings
          /\ dhtSensor' = dht_on_data(dhtSensor)
       \/ \E status \in 1..2 : dhtSensor' = dht_on_error(dhtSensor, status)
    /\ UNCHANGED shtSensor /\ DriverFrame

\* The main loop runs the oldest function scheduled by the DhtSensor.
DhtRunScheduled ==
    /\ dhtSensor.started /\ ~dhtSensor.null_read
    /\ dhtSensor.queue # <<>>
    /\ LET s == [dhtSensor EXCEPT !.queue = Tail(@)]
       IN  dhtSensor' = IF Head(dhtSensor.queue) = "poll"
                        THEN dht_poll(s)
                        ELSE dht_data(s, SensorSample, millis)
    /\ UNCHANGED shtSensor /\ DriverFrame

\* The framework calls Sht31Sensor::setup once at boot.
ShtBoot ==
    /\ ~shtSensor.started
    /\ \E begin_ok \in BOOLEAN :
          shtSensor' = [sht_setup(shtSensor, begin_ok) EXCEPT !.started = TRUE]
    /\ UNCHANGED dhtSensor /\ DriverFrame

\* The main loop calls Sht31Sensor::loop.
ShtLoop ==
    /\ shtSensor.started
    /\ \E ready \in BOOLEAN, success \in BOOLEAN :
          /\ success => shtSensor.reads < MaxSensorReadings
          /\ shtSensor' = sht_loop(shtSensor, ready, success, SensorSample, millis)
    /\ UNCHANGED dhtSensor /\ DriverFrame

\* Device::set_enabled on the Sht31Sensor, from the web interface
ShtSetEnabled ==
    /\ shtSensor' = [shtSensor EXCEPT !.enabled = ~@]
    /\ UNCHANGED dhtSensor /\ DriverFrame

\* The poll ticker fires (attach_scheduled): its callback is queued.
ShtTickerFires ==
    /\ shtSensor.ticker
    /\ Len(shtSensor.queue) < MaxQueued
    /\ shtSensor' = [shtSensor EXCEPT !.queue = Append(@, "poll")]
    /\ UNCHANGED dhtSensor /\ DriverFrame

\* The main loop runs the oldest function scheduled by the Sht31Sensor.
ShtRunScheduled ==
    /\ shtSensor.started
    /\ shtSensor.queue # <<>>
    /\ shtSensor' = sht_poll([shtSensor EXCEPT !.queue = Tail(@)])
    /\ UNCHANGED dhtSensor /\ DriverFrame

NextDrivers ==
    \/ DhtBoot
    \/ DhtLoop
    \/ DhtSetEnabled
    \/ DhtSetReadInterval
    \/ DhtTickerFires
    \/ DhtDelivers
    \/ DhtRunScheduled
    \/ ShtBoot
    \/ ShtLoop
    \/ ShtSetEnabled
    \/ ShtTickerFires
    \/ ShtRunScheduled

SpecDrivers == InitDrivers /\ [][NextDrivers]_vars

\* C35: DhtSensor driver lifetime.  Whenever the poll callback executes
\* dht->read(), the driver object is there, also when the device was
\* disabled, and loop() released the driver, after the callback had been
\* queued, and when the device is enabled again later.
C35_DriverLifetime == ~dhtSensor.null_read

\* C36: at most one outstanding sensor read.  For DhtSensor and
\* Sht31Sensor a step issues a read request only when requested is false,
\* and leaves requested true; requested returns to false only when the
\* error callback or the recording scheduled by the data callback runs
\* (DHT) or when loop() of an available, enabled sensor runs (SHT31); no
\* sensor ever has two requests outstanding, and a poll callback that
\* runs while requested is true issues no request.
C36_OneOutstandingRead ==
    [][/\ dhtSensor'.outstanding <= 1
       /\ shtSensor'.outstanding <= 1
       /\ dhtSensor'.outstanding > dhtSensor.outstanding =>
            ~dhtSensor.requested /\ dhtSensor'.requested
       /\ shtSensor'.outstanding > shtSensor.outstanding =>
            ~shtSensor.requested /\ shtSensor'.requested
       /\ dhtSensor.requested /\ ~dhtSensor'.requested =>
            /\ dhtSensor'.outstanding = 0
            /\ \/ dhtSensor.reading /\ dhtSensor'.last_status # 0
               \/ dhtSensor.queue # <<>> /\ Head(dhtSensor.queue) = "data"
       /\ shtSensor.requested /\ ~shtSensor'.requested =>
            /\ shtSensor'.outstanding = 0
            /\ shtSensor.available /\ shtSensor.enabled
       /\ dhtSensor.requested /\ dhtSensor.queue # <<>>
             /\ Head(dhtSensor.queue) = "poll"
             /\ dhtSensor'.queue = Tail(dhtSensor.queue) =>
            dhtSensor' = [dhtSensor EXCEPT !.queue = Tail(@)]
       /\ shtSensor.requested /\ shtSensor.queue # <<>>
             /\ shtSensor'.queue = Tail(shtSensor.queue) =>
            shtSensor' = [shtSensor EXCEPT !.queue = Tail(@)]
      ]_vars

\* Both sensors have recorded a reading and have their next request
\* outstanding, with a further poll callback already queued behind it.
C36_Witness ==
    /\ dhtSensor.started /\ shtSensor.started
    /\ dhtSensor.reads >= 1 /\ dhtSensor.outstanding = 1 /\ dhtSensor.reading
    /\ dhtSensor.queue = <<"poll">>
    /\ shtSensor.reads >= 1 /\ shtSensor.outstanding = 1
    /\ shtSensor.queue = <<"poll">>

\* C37: temperature and humidity accumulate in lock-step.  In every
\* reachable state of DhtSensor and Sht31Sensor the temperature and the
\* humidity accumulator hold the same number of samples, so whenever
\* temperature.has_accumulation() lets publish() go on, the humidity block
\* has samples too.
C37_LockStep ==
    /\ get_sample_count(dhtSensor.temperature) = get_sample_count(dhtSensor.humidity)
    /\ get_sample_count(shtSensor.temperature) = get_sample_count(shtSensor.humidity)
    /\ dhtSensor.temperature.current_index = dhtSensor.humidity.current_index
    /\ shtSensor.temperature.current_index = shtSensor.humidity.current_index
    /\ has_accumulation(dhtSensor.temperature) => has_accumulation(dhtSensor.humidity)
    /\ has_accumulation(shtSensor.temperature) => has_accumulation(shtSensor.humidity)

\* Both sensors are enabled and have recorded readings, so publish() passes
\* its gate for both.
C37_Witness ==
    /\ dhtSensor.started /\ shtSensor.started
    /\ dhtSensor.enabled /\ shtSensor.enabled
    /\ has_accumulation(dhtSensor.temperature)
    /\ has_accumulation(shtSensor.temperature)
    /\ dhtSensor.reads = 2 /\ shtSensor.reads >= 1

====
